---------------------------- MODULE Spec2Model ----------------------------
(***************************************************************************)
(* Premises-processing pipeline (graph/orchestrator.py and graph/nodes).   *)
(*                                                                         *)
(* One run of run_premises_processing: the LangGraph state machine whose   *)
(* nodes are the functions of graph/nodes, driven by the routers of        *)
(* graph/nodes/routers.py.  A node returns a partial update of the state;  *)
(* the keys it returns are overwritten, every other key keeps its value;   *)
(* the router attached to the node then reads the UPDATED state.           *)
(*                                                                         *)
(* Representation.                                                         *)
(*  - A user-data string (a CSV header or cell, a provider string) is the  *)
(*    sequence of its characters, one one-character string per character.  *)
(*  - A message built by the code is a sequence of tokens: each literal    *)
(*    piece of the f-string is one token, an interpolated user string      *)
(*    contributes its characters.  "" is <<>>.                             *)
(*  - Optional[X] is a sequence of length 0 (None) or 1 (the value).       *)
(*    error_message: Optional[str] is the message itself, None being <<>>  *)
(*    (no node ever assigns the empty string to it).                       *)
(*  - A dict with string keys is a function whose domain is the key set.   *)
(*  - A coordinate is an integer number of thousandths of a degree.        *)
(***************************************************************************)
EXTENDS Integers, Sequences, FiniteSets, TLC

-----------------------------------------------------------------------------
(* Python str primitives used by the nodes *)

LowerChars == <<"a", "b", "c", "d", "e", "f", "g", "h", "i", "j", "k", "l", "m", "n", "o", "p", "q", "r", "s", "t", "u", "v", "w", "x", "y", "z">>

UpperChars == <<"A", "B", "C", "D", "E", "F", "G", "H", "I", "J", "K", "L", "M", "N", "O", "P", "Q", "R", "S", "T", "U", "V", "W", "X", "Y", "Z">>

DigitChars == {"0", "1", "2", "3", "4", "5", "6", "7", "8", "9"}

\* str.isspace for the characters that occur: space, tab, newline, return
SpaceChars == {" ", "\t", "\n", "\r"}

IsUpperChar(c) == \E i \in DOMAIN UpperChars : UpperChars[i] = c

IsLowerChar(c) == \E i \in DOMAIN LowerChars : LowerChars[i] = c

IsLetter(c) == IsUpperChar(c) \/ IsLowerChar(c)

LowerChar(c) ==
  IF IsUpperChar(c)
    THEN LowerChars[CHOOSE i \in DOMAIN UpperChars : UpperChars[i] = c]
    ELSE c

UpperChar(c) ==
  IF IsLowerChar(c)
    THEN UpperChars[CHOOSE i \in DOMAIN LowerChars : LowerChars[i] = c]
    ELSE c

\* str.lower()
Lower(s) == [i \in DOMAIN s |-> LowerChar(s[i])]

\* str.upper()
Upper(s) == [i \in DOMAIN s |-> UpperChar(s[i])]

\* str.strip(): leading and trailing whitespace removed
Strip(s) ==
  LET idx == {i \in DOMAIN s : s[i] \notin SpaceChars}
  IN  IF idx = {} THEN <<>>
      ELSE LET lo == CHOOSE i \in idx : \A j \in idx : i <= j
               hi == CHOOSE i \in idx : \A j \in idx : i >= j
           IN  SubSeq(s, lo, hi)

\* sub in s
Contains(s, sub) ==
  \E i \in 1..(Len(s) - Len(sub) + 1) : SubSeq(s, i, i + Len(sub) - 1) = sub

\* str.title(): a letter is upper-cased when no letter precedes it, lower-cased otherwise
Title(s) ==
  [i \in DOMAIN s |->
     IF i = 1 \/ ~IsLetter(s[i - 1]) THEN UpperChar(s[i]) ELSE LowerChar(s[i])]

\* re.sub(r'\s+', ' ', s): every run of whitespace becomes one space
RECURSIVE CollapseSpaces(_)
CollapseSpaces(s) ==
  IF s = <<>> THEN <<>>
  ELSE IF Head(s) \in SpaceChars
    THEN IF Len(s) > 1 /\ s[2] \in SpaceChars
           THEN CollapseSpaces(Tail(s))
           ELSE <<" ">> \o CollapseSpaces(Tail(s))
    ELSE <<Head(s)>> \o CollapseSpaces(Tail(s))

\* s.split(',')[0]
BeforeComma(s) ==
  LET idx == {i \in DOMAIN s : s[i] = ","}
  IN  IF idx = {} THEN s
      ELSE SubSeq(s, 1, (CHOOSE i \in idx : \A j \in idx : i <= j) - 1)

\* re.match(r'^\d+\s', s)
StartsWithNumberSpace(s) ==
  \E k \in 1..(Len(s) - 1) :
     /\ \A i \in 1..k : s[i] \in DigitChars
     /\ s[k + 1] \in SpaceChars

\* Python's '$' also matches just before a newline that ends the string
DropFinalNewline(s) ==
  IF Len(s) > 0 /\ s[Len(s)] = "\n" THEN SubSeq(s, 1, Len(s) - 1) ELSE s

ExactlyTwoUpper(s) == Len(s) = 2 /\ \A i \in 1..2 : IsUpperChar(s[i])

AllDigits(s, lo, hi) == \A i \in lo..hi : s[i] \in DigitChars

ExactlyZip(s) ==
  \/ Len(s) = 5 /\ AllDigits(s, 1, 5)
  \/ Len(s) = 10 /\ AllDigits(s, 1, 5) /\ s[6] = "-" /\ AllDigits(s, 7, 10)

\* re.match(r'^[A-Z]{2}$', s)
MatchesStateCode(s) == ExactlyTwoUpper(DropFinalNewline(s))

\* re.match(r'^\d{5}(-\d{4})?$', s)
MatchesPostalCode(s) == ExactlyZip(DropFinalNewline(s))

\* '; '.join(parts), for messages
RECURSIVE Join(_, _)
Join(parts, sep) ==
  IF parts = <<>> THEN <<>>
  ELSE IF Len(parts) = 1 THEN Head(parts)
  ELSE Head(parts) \o <<sep>> \o Join(Tail(parts), sep)

\* dict helpers: d.get(k, default), d[k] = v, k in d
Get(d, k, default) == IF k \in DOMAIN d THEN d[k] ELSE default

Put(d, k, v) == [x \in (DOMAIN d) \cup {k} |-> IF x = k THEN v ELSE d[x]]

EmptyDict == [x \in {} |-> <<>>]

None == <<>>

Some(v) == <<v>>

-----------------------------------------------------------------------------
(* graph/nodes/parse_row.py: the field normalizer *)

S_premise_name == <<"p", "r", "e", "m", "i", "s", "e", "_", "n", "a", "m", "e">>

S_business_name == <<"b", "u", "s", "i", "n", "e", "s", "s", "_", "n", "a", "m", "e">>

S_company_name == <<"c", "o", "m", "p", "a", "n", "y", "_", "n", "a", "m", "e">>

S_facility_name == <<"f", "a", "c", "i", "l", "i", "t", "y", "_", "n", "a", "m", "e">>

S_location_name == <<"l", "o", "c", "a", "t", "i", "o", "n", "_", "n", "a", "m", "e">>

S_name == <<"n", "a", "m", "e">>

S_business == <<"b", "u", "s", "i", "n", "e", "s", "s">>

S_address == <<"a", "d", "d", "r", "e", "s", "s">>

S_street == <<"s", "t", "r", "e", "e", "t">>

S_location == <<"l", "o", "c", "a", "t", "i", "o", "n">>

S_city == <<"c", "i", "t", "y">>

S_municipality == <<"m", "u", "n", "i", "c", "i", "p", "a", "l", "i", "t", "y">>

S_town == <<"t", "o", "w", "n">>

S_state == <<"s", "t", "a", "t", "e">>

S_st == <<"s", "t">>

S_postal == <<"p", "o", "s", "t", "a", "l">>

S_zip == <<"z", "i", "p">>

S_postal_code == <<"p", "o", "s", "t", "a", "l", "_", "c", "o", "d", "e">>

S_error_reason == <<"e", "r", "r", "o", "r", "_", "r", "e", "a", "s", "o", "n">>

\* any(x in key_lower for x in subs)
AnyIn(subs, key_lower) == \E x \in subs : Contains(key_lower, x)

NameSynonyms ==
  {S_premise_name, S_business_name, S_company_name, S_facility_name, S_location_name}

AddressSynonyms == {S_address, S_street, S_location}

CitySynonyms == {S_city, S_municipality, S_town}

\* The canonical key a header is mapped to by the if/elif chain; <<>> when no branch matches
FieldOfHeader(key) ==
  LET key_lower == Strip(Lower(key))
  IN  IF AnyIn(NameSynonyms, key_lower) \/ key_lower = S_name \/ key_lower = S_business
        THEN S_name
      ELSE IF AnyIn(AddressSynonyms, key_lower) /\ ~Contains(key_lower, S_name)
        THEN S_address
      ELSE IF AnyIn(CitySynonyms, key_lower)
        THEN S_city
      ELSE IF Contains(key_lower, S_state) \/ key_lower = S_st
        THEN S_state
      ELSE IF Contains(key_lower, S_postal) \/ Contains(key_lower, S_zip)
        THEN S_postal_code
      ELSE <<>>

\* The loop over raw_row.keys(): a raw row is the sequence of its (header, value)
\* columns in file order; a later column mapped to the same key overwrites
RECURSIVE NormalizeColumns(_, _)
NormalizeColumns(raw_row, normalized_row) ==
  IF raw_row = <<>> THEN normalized_row
  ELSE LET key == Head(raw_row)[1]
           val == Head(raw_row)[2]
           f == FieldOfHeader(key)
       IN  NormalizeColumns(Tail(raw_row),
             IF f = <<>> THEN normalized_row ELSE Put(normalized_row, f, Strip(val)))

\* The value csv.DictReader gives a column the row has no field for
PyNone == <<"None">>

\* raw_row[key].strip() raises AttributeError on None, for a column the loop maps
ParseRaises(raw_row) ==
  \E k \in 1..Len(raw_row) :
    FieldOfHeader(raw_row[k][1]) # <<>> /\ raw_row[k][2] = PyNone

CanonicalKeys == {S_name, S_address, S_city, S_state, S_postal_code}

\* dict.setdefault(k, '') for the five canonical keys
SetDefaults(d) == [k \in (DOMAIN d) \cup CanonicalKeys |-> IF k \in DOMAIN d THEN d[k] ELSE <<>>]

NormalizeRow(raw_row) == SetDefaults(NormalizeColumns(raw_row, EmptyDict))

-----------------------------------------------------------------------------
(* graph/nodes/places_search.py and graph/tools/google_places.py *)

VALID_US_STATE_CODES ==
  {
    <<"A", "L">>, <<"A", "K">>, <<"A", "Z">>, <<"A", "R">>, <<"C", "A">>, <<"C", "O">>,
    <<"C", "T">>, <<"D", "E">>, <<"F", "L">>, <<"G", "A">>, <<"H", "I">>, <<"I", "D">>,
    <<"I", "L">>, <<"I", "N">>, <<"I", "A">>, <<"K", "S">>, <<"K", "Y">>, <<"L", "A">>,
    <<"M", "E">>, <<"M", "D">>, <<"M", "A">>, <<"M", "I">>, <<"M", "N">>, <<"M", "S">>,
    <<"M", "O">>, <<"M", "T">>, <<"N", "E">>, <<"N", "V">>, <<"N", "H">>, <<"N", "J">>,
    <<"N", "M">>, <<"N", "Y">>, <<"N", "C">>, <<"N", "D">>, <<"O", "H">>, <<"O", "K">>,
    <<"O", "R">>, <<"P", "A">>, <<"R", "I">>, <<"S", "C">>, <<"S", "D">>, <<"T", "N">>,
    <<"T", "X">>, <<"U", "T">>, <<"V", "T">>, <<"V", "A">>, <<"W", "A">>, <<"W", "V">>,
    <<"W", "I">>, <<"W", "Y">>, <<"D", "C">>
  }

NON_BUSINESS_TYPES ==
  {"street_address", "route", "intersection", "political", "country",
   "administrative_area_level_1", "administrative_area_level_2",
   "administrative_area_level_3", "administrative_area_level_4",
   "administrative_area_level_5", "locality", "sublocality", "neighborhood",
   "premise", "subpremise", "postal_code", "natural_feature", "airport", "park",
   "point_of_interest"}

\* distance > 0.05 degrees, in thousandths of a degree
FAR_DEGREES == 50

\* Python truthiness of an Optional[float]: None and 0 are false
TruthyNum(o) == o # None /\ o[1] # 0

\* ((places_lat - geocode_lat) ** 2 + (places_lng - geocode_lng) ** 2) ** 0.5 > 0.05
\* (a difference beyond the threshold decides alone; the squares of the others fit)
Abs(x) == IF x < 0 THEN -x ELSE x

TooFar(places_lat, places_lng, geocode_lat, geocode_lng) ==
  LET dlat == Abs(places_lat - geocode_lat)
      dlng == Abs(places_lng - geocode_lng)
  IN  \/ dlat > FAR_DEGREES
      \/ dlng > FAR_DEGREES
      \/ dlat * dlat + dlng * dlng > FAR_DEGREES * FAR_DEGREES

\* The result that survives the distance check (lines 89-100); None when discarded
NearbyResult(result, geocode_result) ==
  IF result = None THEN None
  ELSE IF /\ TruthyNum(result[1].latitude)
          /\ TruthyNum(result[1].longitude)
          /\ TooFar(result[1].latitude[1], result[1].longitude[1],
                    geocode_result.latitude, geocode_result.longitude)
    THEN None
  ELSE result

\* The synthetic address-only result built from the geocode and the user's name
GeocodedOnly(name, geocode_result) ==
  [name |-> name,
   formatted_address |-> geocode_result.formatted_address,
   latitude |-> Some(geocode_result.latitude),
   longitude |-> Some(geocode_result.longitude),
   types |-> <<"premise">>,
   address_components |-> geocode_result.address_components]

SeqToSet(s) == {s[i] : i \in DOMAIN s}

PlacesError(msg) ==
  [places_result |-> None, places_found |-> FALSE, latitude |-> None,
   longitude |-> None, places_type |-> None, next_step |-> "error_handler",
   error_message |-> msg, geocode_calls |-> 0, search_calls |-> 0]

PlacesResolved(places_result, geocode_result, places_type) ==
  [places_result |-> Some(places_result), places_found |-> TRUE,
   latitude |-> Some(geocode_result.latitude),
   longitude |-> Some(geocode_result.longitude),
   places_type |-> Some(places_type), next_step |-> "standardize",
   error_message |-> None, geocode_calls |-> 1, search_calls |-> 1]

\* variant: an address without a surviving candidate is an error
ResolveIdentity_NeedsCandidate(name, geocode_result, result) ==
  IF result # None
    THEN [places_result |-> Some(result[1]), places_found |-> TRUE,
          latitude |-> Some(geocode_result.latitude),
          longitude |-> Some(geocode_result.longitude),
          places_type |-> Some("establishment"), next_step |-> "standardize",
          error_message |-> None, geocode_calls |-> 1, search_calls |-> 1]
    ELSE [places_result |-> None, places_found |-> FALSE, latitude |-> None,
          longitude |-> None, places_type |-> None, next_step |-> "error_handler",
          error_message |-> <<"No business found at address">>,
          geocode_calls |-> 1, search_calls |-> 1]

\* Lines 102-160: the resolution once the address is geocoded; result is the
\* candidate that survived the distance check, None when there is none
ResolveIdentity(name, geocode_result, result) ==
  IF result # None
    THEN LET result_types == SeqToSet(result[1].types)
         IN  IF result_types # {} /\ result_types \subseteq NON_BUSINESS_TYPES
               THEN PlacesResolved(GeocodedOnly(name, geocode_result),
                                   geocode_result, "premise")
               ELSE PlacesResolved(result[1], geocode_result,
                      IF result[1].types # <<>>
                        THEN result[1].types[1] ELSE "establishment")
    ELSE PlacesResolved(GeocodedOnly(name, geocode_result), geocode_result, "premise")

\* variant: the state code is not checked against VALID_US_STATE_CODES
InputError_NoStateCheck(row) ==
  LET address == Get(row, S_address, <<>>)
      city == Get(row, S_city, <<>>)
      state_code == Upper(Get(row, S_state, <<>>))
  IN  IF address = <<>> \/ city = <<>> \/ state_code = <<>>
        THEN Some([places_result |-> None, places_found |-> FALSE, latitude |-> None,
                   longitude |-> None, places_type |-> None,
                   next_step |-> "error_handler",
                   error_message |-> <<"Incomplete address information">>,
                   geocode_calls |-> 0, search_calls |-> 0])
      ELSE None

\* Lines 36-61: the checks made before any collaborator is called; the error
\* update of the row, None when the row passes
InputError(row) ==
  LET address == Get(row, S_address, <<>>)
      city == Get(row, S_city, <<>>)
      state_code == Upper(Get(row, S_state, <<>>))
  IN  IF address = <<>> \/ city = <<>> \/ state_code = <<>>
        THEN Some(PlacesError(<<"Incomplete address information">>))
      ELSE IF state_code \notin VALID_US_STATE_CODES
        THEN Some(PlacesError(<<"Invalid US state code: ">> \o state_code))
      ELSE None

\* places_search_node: the update it returns for current_row when geocode_address
\* answers geocode (None for a miss) and search_place answers place (None for a
\* miss); geocode_calls/search_calls count the collaborator calls it made
PlacesSearchUpdate(row, geocode, place) ==
  LET address == Get(row, S_address, <<>>)
      city == Get(row, S_city, <<>>)
      state_code == Upper(Get(row, S_state, <<>>))
      name == Get(row, S_name, <<>>)
  IN  IF InputError(row) # None THEN InputError(row)[1]
      ELSE IF geocode = None
        THEN [PlacesError(<<"Address not found: ">> \o address \o <<", ">> \o city
                            \o <<", ">> \o state_code)
                EXCEPT !.geocode_calls = 1]
      ELSE ResolveIdentity(name, geocode[1], NearbyResult(place, geocode[1]))

\* GooglePlacesTool.parse_address_components: the loop over the components
RECURSIVE ParseComponents(_, _)
ParseComponents(components, parsed) ==
  IF components = <<>> THEN parsed
  ELSE LET c == Head(components)
           types == SeqToSet(c.types)
       IN  ParseComponents(Tail(components),
             IF "street_number" \in types THEN Put(parsed, "street_number", c.long_name)
             ELSE IF "route" \in types THEN Put(parsed, "route", c.long_name)
             ELSE IF "locality" \in types THEN Put(parsed, "city", c.long_name)
             ELSE IF "administrative_area_level_1" \in types
               THEN Put(Put(parsed, "state", c.long_name), "state_code", c.short_name)
             ELSE IF "postal_code" \in types THEN Put(parsed, "postal_code", c.long_name)
             ELSE parsed)

parse_address_components(address_components) ==
  LET parsed == ParseComponents(address_components, EmptyDict)
      street_num == Get(parsed, "street_number", <<>>)
      route == Get(parsed, "route", <<>>)
  IN  Put(parsed, "address_line_1",
          IF street_num # <<>> /\ route # <<>> THEN street_num \o <<" ">> \o route
          ELSE IF route # <<>> THEN route
          ELSE <<>>)

-----------------------------------------------------------------------------
(* graph/nodes/standardize.py *)

StandardizedName(row, places_result, places_found) ==
  IF places_found /\ places_result # None
    THEN LET places_name == Strip(places_result[1].name)
             original_name == Strip(Get(row, S_name, <<>>))
         IN  CollapseSpaces(
               IF places_name # <<>> /\ StartsWithNumberSpace(places_name)
                 THEN (IF original_name # <<>> THEN Title(original_name) ELSE places_name)
                 ELSE (IF places_name # <<>> THEN places_name ELSE Title(original_name)))
    ELSE CollapseSpaces(Title(Get(row, S_name, <<>>)))

StandardizedAddress(row, places_result, places_found) ==
  IF places_found /\ places_result # None
    THEN LET parsed0 == parse_address_components(places_result[1].address_components)
             formatted_addr == places_result[1].formatted_address
             parsed_address ==
               IF Get(parsed0, "address_line_1", <<>>) = <<>>
                 THEN Put(parsed0, "address_line_1", BeforeComma(formatted_addr))
                 ELSE parsed0
         IN  [address_line_1 |-> Get(parsed_address, "address_line_1", Get(row, S_address, <<>>)),
              city |-> Get(parsed_address, "city", Get(row, S_city, <<>>)),
              state |-> Get(parsed_address, "state", Get(row, S_state, <<>>)),
              state_code |-> Get(parsed_address, "state_code", Get(row, S_state, <<>>)),
              postal_code |-> Get(parsed_address, "postal_code", Get(row, S_postal_code, <<>>))]
    ELSE [address_line_1 |-> Get(row, S_address, <<>>),
          city |-> Get(row, S_city, <<>>),
          state |-> Get(row, S_state, <<>>),
          state_code |-> Get(row, S_state, <<>>),
          postal_code |-> Get(row, S_postal_code, <<>>)]

-----------------------------------------------------------------------------
(* graph/nodes/database_query.py *)

\* Python truthiness of an Optional[str]: None and '' are false
TruthyStr(o) == o # None /\ o[1] # <<>>

\* 0.001 degrees, in thousandths of a degree
RADIUS_DEGREES == 1

\* state_id: get_state_by_code, falling back to get_state_by_name; by_code and
\* by_name are the records store's answers (None for a miss)
ResolveStateId(standardized_address, by_code, by_name) ==
  LET state_code == Get(standardized_address, "state_code", <<>>)
      state_name == Get(standardized_address, "state", <<>>)
      state_record ==
        IF state_code = <<>> THEN None
        ELSE IF by_code # None THEN by_code
        ELSE IF state_name # <<>> THEN by_name
        ELSE None
  IN  IF state_record # None THEN Some(state_record[1].id) ELSE None

\* The nearby query is issued only when both coordinates are truthy
NearbyQueried(lat, lng) == TruthyNum(lat) /\ TruthyNum(lng)

\* variant: the nearby query searches a radius ten times as wide
NearbyQuery_Wide(lat, lng, state_id) ==
  [latitude |-> lat, longitude |-> lng, state_id |-> state_id,
   radius_degrees |-> 10 * RADIUS_DEGREES]

\* the arguments of db_tool.query_premises_by_location
NearbyQuery(lat, lng, state_id) ==
  [latitude |-> lat, longitude |-> lng, state_id |-> state_id,
   radius_degrees |-> RADIUS_DEGREES]

-----------------------------------------------------------------------------
(* graph/tools/llm_confidence.py and graph/nodes/confidence_scoring.py *)

HIGH_CONFIDENCE == 8

MIN_SCORE == 1

MAX_SCORE == 10

ERROR_SCORE == 3

\* An LLM answer is <<"raise">> (the call raised), <<"text">> (an answer holding no
\* number) or <<"text", n>> (an answer whose first run of digits reads n)
\* LLMConfidenceTool.score_duplicate_confidence
\* variant: the answer is taken as it comes
score_duplicate_confidence_Unclamped(response) ==
  IF response[1] = "raise" \/ Len(response) = 1 THEN ERROR_SCORE ELSE response[2]

score_duplicate_confidence(response) ==
  IF response[1] = "raise" \/ Len(response) = 1 THEN ERROR_SCORE
  ELSE LET score == response[2]
       IN  IF score < MIN_SCORE THEN MIN_SCORE
           ELSE IF score > MAX_SCORE THEN MAX_SCORE
           ELSE score

\* variant: the new record is compared under its standardized name
ComparisonName_Standardized(row, standardized_name) == standardized_name

\* 'name' of new_record: original_name or standardized_name
ComparisonName(row, standardized_name) ==
  LET original_name == Strip(Get(row, S_name, <<>>))
  IN  IF original_name # <<>> THEN original_name ELSE standardized_name

\* variant: the threshold is exclusive
StepAfterScore_Exclusive(score) ==
  IF score > HIGH_CONFIDENCE THEN "log_duplicate" ELSE "occupancy_classification"

\* next_step chosen by confidence_scoring_node for a computed score
StepAfterScore(score) ==
  IF score >= HIGH_CONFIDENCE THEN "log_duplicate" ELSE "occupancy_classification"

-----------------------------------------------------------------------------
(* graph/tools/llm_occupancy.py and graph/nodes/occupancy_classification.py *)

\* LLMOccupancyTool.classify_occupancy_type, for a non-empty option list
classify_occupancy_type(response, occupancy_options) ==
  LET valid_ids == {occupancy_options[i].occupancy_type_id : i \in DOMAIN occupancy_options}
      first == occupancy_options[1].occupancy_type_id
  IN  IF response[1] = "raise" \/ Len(response) = 1 THEN first
      ELSE IF response[2] \in valid_ids THEN response[2]
      ELSE first

\* The option selected_id names: the first option with that id; None when
\* selected_id is falsy (0) or names no option
SelectedOccupancy(selected_id, occupancy_options) ==
  LET idx == {i \in DOMAIN occupancy_options :
                occupancy_options[i].occupancy_type_id = selected_id}
  IN  IF selected_id = 0 \/ idx = {} THEN None
      ELSE Some(occupancy_options[CHOOSE i \in idx : \A j \in idx : i <= j])

-----------------------------------------------------------------------------
(* graph/nodes/format_output.py *)

\* str(x) of a coordinate: the text is carried as the number it denotes, wrapped
\* in a one-element sequence; '' is the empty sequence
StrOfNum(x) == <<x>>

\* variant: every record is tagged as checked for duplicates
DuplicateChecked_Always(confidence_score) == TRUE

\* '_duplicate_checked': confidence_score is not None
DuplicateChecked(confidence_score) == confidence_score # None

format_output_row(standardized_name, standardized_address, latitude, longitude, selected_occupancy, state_code, confidence_score) ==
  [Id |-> <<>>,
   Reference_Number |-> <<>>,
   Unique_Reference_Number |-> <<>>,
   Building_Number |-> <<>>,
   Premise_Name |-> standardized_name,
   Address_Line_1 |-> Get(standardized_address, "address_line_1", <<>>),
   Address_Line_2 |-> <<>>,
   Postal_Code |-> Get(standardized_address, "postal_code", <<>>),
   Status |-> "Active",
   AHJ_Name |-> <<>>,
   AHJ_Geofence_Name |-> <<>>,
   Record_Type |-> "Standard",
   Country |-> "USA",
   State |-> IF TruthyStr(state_code) THEN state_code[1]
             ELSE Get(standardized_address, "state_code", <<>>),
   City |-> Get(standardized_address, "city", <<>>),
   System_Type |-> <<>>,
   Internal_System_Type |-> <<>>,
   Preferred_Communication_Type |-> "Email",
   Parent_Premises |-> <<>>,
   Premise_Occupancy |-> IF selected_occupancy # None
                           THEN selected_occupancy[1].occupancy_type_name ELSE <<>>,
   Contact_Name |-> <<>>,
   Contact_Email |-> <<>>,
   Contact_Number |-> <<>>,
   Latitude |-> IF TruthyNum(latitude) THEN StrOfNum(latitude[1]) ELSE <<>>,
   Longitude |-> IF TruthyNum(longitude) THEN StrOfNum(longitude[1]) ELSE <<>>,
   Fire_Station_Number |-> <<>>,
   Has_Knox_Box |-> "No",
   Knox_Box_Location |-> <<>>,
   Knox_Box_Description |-> <<>>,
   Enable_Geofence_Auto_Assign |-> "No",
   Country_ShortName |-> "US",
   Parent_Reference |-> <<>>,
   Labels |-> <<>>,
   confidence_score_meta |-> confidence_score,
   duplicate_checked_meta |-> DuplicateChecked(confidence_score)]

-----------------------------------------------------------------------------
(* graph/nodes/verify_output.py *)

MIN_LATITUDE == -90000

MAX_LATITUDE == 90000

MIN_LONGITUDE == -180000

MAX_LONGITUDE == 180000

\* not value or str(value).strip() == '', for a text field
MissingText(value) == Strip(value) = <<>>

\* the same test for Status, a literal of the formatter
MissingLiteral(value) == value = ""

\* variant: Premise Occupancy is not a required field
RequiredFieldErrors_NoOccupancy(o) ==
  LET missing == <<MissingText(o.Premise_Name), MissingText(o.Address_Line_1),
                   MissingText(o.City), MissingText(o.State),
                   MissingText(o.Postal_Code), MissingLiteral(o.Status),
                   o.Latitude = <<>>, o.Longitude = <<>> >>
      names == <<"Premise Name", "Address Line 1", "City", "State", "Postal Code",
                 "Status", "Latitude", "Longitude">>
      F[i \in 0..8] ==
        IF i = 0 THEN <<>>
        ELSE IF missing[i] THEN Append(F[i - 1], <<"Missing required field: ", names[i]>>)
        ELSE F[i - 1]
  IN  F[8]

\* The 'Missing required field' messages, in the order of required_fields
RequiredFieldErrors(o) ==
  LET missing == <<MissingText(o.Premise_Name), MissingText(o.Address_Line_1),
                   MissingText(o.City), MissingText(o.State),
                   MissingText(o.Postal_Code), MissingLiteral(o.Status),
                   o.Latitude = <<>>, o.Longitude = <<>>,
                   MissingText(o.Premise_Occupancy)>>
      names == <<"Premise Name", "Address Line 1", "City", "State", "Postal Code",
                 "Status", "Latitude", "Longitude", "Premise Occupancy">>
      F[i \in 0..9] ==
        IF i = 0 THEN <<>>
        ELSE IF missing[i] THEN Append(F[i - 1], <<"Missing required field: ", names[i]>>)
        ELSE F[i - 1]
  IN  F[9]

\* The try block: float() raises ValueError on '' and the three range tests are
\* then skipped
CoordinateErrors(o) ==
  IF o.Latitude = <<>> \/ o.Longitude = <<>>
    THEN << <<"Latitude/Longitude must be valid numbers">> >>
  ELSE LET lat == o.Latitude[1]
           lng == o.Longitude[1]
       IN  (IF ~(MIN_LATITUDE <= lat /\ lat <= MAX_LATITUDE)
              THEN << <<"Invalid latitude: ", ToString(lat), " (must be -90 to 90)">> >>
              ELSE <<>>)
           \o (IF ~(MIN_LONGITUDE <= lng /\ lng <= MAX_LONGITUDE)
              THEN << <<"Invalid longitude: ", ToString(lng), " (must be -180 to 180)">> >>
              ELSE <<>>)
           \o (IF lat = 0 /\ lng = 0
              THEN << <<"Coordinates are 0,0 (likely invalid)">> >>
              ELSE <<>>)

StateErrors(o) ==
  IF o.State # <<>> /\ ~MatchesStateCode(o.State)
    THEN << <<"Invalid state code: ">> \o o.State \o <<" (must be 2 uppercase letters)">> >>
    ELSE <<>>

PostalErrors(o) ==
  IF o.Postal_Code # <<>> /\ ~MatchesPostalCode(o.Postal_Code)
    THEN << <<"Invalid postal code format: ">> \o o.Postal_Code >>
    ELSE <<>>

StatusErrors(o) ==
  IF o.Status \notin {"Active", "Inactive"}
    THEN << <<"Invalid status: ", o.Status, " (must be 'Active' or 'Inactive')">> >>
    ELSE <<>>

CountryErrors(o) ==
  (IF o.Country # "" /\ o.Country # "USA"
     THEN << <<"Invalid country: ", o.Country, " (must be 'USA')">> >> ELSE <<>>)
  \o (IF o.Country_ShortName # "" /\ o.Country_ShortName # "US"
     THEN << <<"Invalid country short name: ", o.Country_ShortName, " (must be 'US')">> >>
     ELSE <<>>)

\* validation_errors, in the order the rules are applied
ValidationErrors(o) ==
  RequiredFieldErrors(o) \o CoordinateErrors(o) \o StateErrors(o) \o PostalErrors(o)
    \o StatusErrors(o) \o CountryErrors(o)

\* f"Output validation failed: {'; '.join(validation_errors)}"
ValidationFailedMessage(validation_errors) ==
  <<"Output validation failed: ">> \o Join(validation_errors, "; ")

-----------------------------------------------------------------------------
(* The input file and the collaborators' answers *)

\* Largest number of input rows of a run
MaxRows == 3

T_ab == <<"a", "b">>

T_ab_padded == <<" ", "a", "b", " ">>

T_1m == <<"1", " ", "m">>

T_x == <<"x">>

T_CA == <<"C", "A">>

T_ca == <<"c", "a">>

T_XX == <<"X", "X">>

T_California == <<"C", "a", "l", "i", "f", "o", "r", "n", "i", "a">>

T_95603 == <<"9", "5", "6", "0", "3">>

T_95603_newline == <<"9", "5", "6", "0", "3", "\n">>

T_formatted == <<"1", " ", "m", ",", "x">>

RowCanonical ==
  << <<S_name, T_ab>>, <<S_address, T_1m>>, <<S_city, T_x>>, <<S_state, T_CA>>,
     <<S_postal_code, T_95603>> >>

\* other header spellings, padded values, a lower-case state and an unmapped column
RowAliased ==
  << <<<<"B", "u", "s", "i", "n", "e", "s", "s", "_", "N", "a", "m", "e">>, T_ab_padded>>,
     <<<<"S", "t", "r", "e", "e", "t">>, T_1m>>,
     <<<<"T", "o", "w", "n">>, T_x>>,
     <<<<"S", "T">>, T_ca>>,
     <<<<"Z", "i", "p">>, T_95603>>,
     <<<<"p", "h", "o", "n", "e">>, <<"5">> >> >>

RowNoCity ==
  << <<S_name, T_ab>>, <<S_address, T_1m>>, <<S_city, <<>> >>, <<S_state, T_CA>>,
     <<S_postal_code, T_95603>> >>

RowBadState ==
  << <<S_name, T_ab>>, <<S_address, T_1m>>, <<S_city, T_x>>, <<S_state, T_XX>>,
     <<S_postal_code, T_95603>> >>

\* a row without a name
RowNoName ==
  << <<S_name, <<>> >>, <<S_address, T_1m>>, <<S_city, T_x>>, <<S_state, T_CA>>,
     <<S_postal_code, T_95603>> >>

\* the canonical header over a name with blanks around it
RowPadded ==
  << <<S_name, T_ab_padded>>, <<S_address, T_1m>>, <<S_city, T_x>>, <<S_state, T_CA>>,
     <<S_postal_code, T_95603>> >>

\* a row that ends after its third field, under the canonical header
RowShort ==
  << <<S_name, T_ab>>, <<S_address, T_1m>>, <<S_city, T_x>>, <<S_state, PyNone>>,
     <<S_postal_code, PyNone>> >>

Component(long_name, short_name, type) ==
  [long_name |-> long_name, short_name |-> short_name, types |-> <<type>>]

Components(state_short, postal) ==
  <<Component(<<"1">>, <<"1">>, "street_number"),
    Component(<<"m">>, <<"m">>, "route"),
    Component(T_x, T_x, "locality"),
    Component(T_California, state_short, "administrative_area_level_1"),
    Component(postal, postal, "postal_code")>>

Geo(lat, lng, components) ==
  Some([latitude |-> lat, longitude |-> lng, formatted_address |-> T_formatted,
        address_components |-> components])

Place(name, lat, lng, types) ==
  Some([name |-> name, formatted_address |-> T_formatted, latitude |-> Some(lat),
        longitude |-> Some(lng), types |-> types,
        address_components |-> Components(T_CA, T_95603)])

Premise(id) == [id |-> id, premise_name |-> T_ab, address_line_1 |-> T_1m]

Occupancy(id, name) == [occupancy_type_id |-> id, occupancy_type_name |-> name]

StateRecord == Some([id |-> 5])

\* A run of at most one row is explored with the large repertoire of rows and
\* collaborator answers, a longer run with the small one
Large(rows) == Len(rows) <= 1

\* files of up to three rows are run against the middle repertoire, longer ones
\* against the smallest
Medium(rows) == Len(rows) <= 3

RawRows(n) ==
  IF n <= 1
    THEN {RowCanonical, RowAliased, RowNoCity, RowBadState, RowShort, RowPadded, RowNoName}
  ELSE IF n <= 3 THEN {RowCanonical, RowAliased, RowNoCity}
  ELSE {RowCanonical, RowNoCity}

GeocodeAnswers(rows) ==
  IF Large(rows)
    THEN {None,
          Geo(38935, -121093, <<>>),
          Geo(38935, -121093, Components(T_CA, T_95603)),
          Geo(38935, -121093, Components(T_California, T_95603)),
          Geo(38935, -121093, Components(T_CA, T_95603_newline)),
          Geo(0, -121093, Components(T_CA, T_95603)),
          Geo(0, 0, Components(T_CA, T_95603)),
          Geo(91000, -121093, Components(T_CA, T_95603)),
          Geo(91000, 0, Components(T_CA, T_95603)),
          Geo(38935, 0, Components(T_CA, T_95603))}
  ELSE IF Medium(rows)
    THEN {None, Geo(38935, -121093, <<>>), Geo(38935, -121093, Components(T_CA, T_95603))}
  ELSE {None, Geo(38935, -121093, Components(T_CA, T_95603))}

SearchAnswers(rows) ==
  IF Large(rows)
    THEN {None,
          Place(<<"A", "b">>, 38945, -121093, <<"restaurant", "point_of_interest">>),
          Place(T_1m, 38935, -121093, <<"route">>),
          Place(<<"A", "b">>, 38995, -121093, <<"restaurant">>),
          Place(<<"A", "b">>, 38945, -121093, <<>>),
          Place(<<"A", "b">>, 0, -121093, <<"restaurant">>)}
    ELSE {None}

StateByCodeAnswers(rows) == IF Large(rows) THEN {None, StateRecord} ELSE {StateRecord}

StateByNameAnswers(rows) == IF Large(rows) THEN {None, StateRecord} ELSE {None}

NearbyAnswers(rows) ==
  IF Large(rows)
    THEN {<<>>, <<Premise(7)>>, <<Premise(7), Premise(9)>>}
    ELSE {<<>>, <<Premise(7)>>}

ScoreAnswers(rows) ==
  IF Large(rows)
    THEN {<<"raise">>, <<"text">>, <<"text", 0>>, <<"text", 6>>, <<"text", 8>>,
          <<"text", 11>>}
    ELSE {<<"text", 6>>, <<"text", 8>>}

OccupancyAnswers(rows) ==
  IF Large(rows)
    THEN {<<>>, <<Occupancy(1, <<"A">>), Occupancy(2, <<"B">>)>>,
          <<Occupancy(0, <<"Z">>), Occupancy(1, <<"A">>)>>}
    ELSE {<<>>, <<Occupancy(1, <<"A">>), Occupancy(2, <<"B">>)>>}

ClassifyAnswers(rows) ==
  IF Large(rows)
    THEN {<<"raise">>, <<"text">>, <<"text", 2>>, <<"text", 99>>}
    ELSE {<<"text", 2>>}

\* What an earlier run can have left in output/: nothing, or three files
Absent == <<"absent">>

NoFiles == [processed |-> Absent, errors |-> Absent, duplicates |-> Absent]

StaleFiles ==
  [processed |-> <<"file", <<"stale">> >>, errors |-> <<"file", <<"stale">> >>,
   duplicates |-> <<"file", <<"stale">> >>]

-----------------------------------------------------------------------------
(* graph/state.py: PremiseState, and the run around it *)

VARIABLES
  csv_rows, current_row_index, current_row,
  places_result, places_found, standardized_name, standardized_address,
  latitude, longitude, places_type,
  existing_premises, duplicate_found, confidence_score, matched_premise_id,
  state_id, state_code, occupancy_type_options, selected_occupancy_type,
  output_row, successful_rows, error_rows, duplicate_log,
  verification_passed, validation_errors,
  next_step, error_message,
  pc,      \* the node the graph runs next; "END" after write_output, "ABORTED"
           \* when a node raised and graph.invoke propagated the exception
  files,   \* the three files of output/
  rowlog   \* history: for each row that was parsed, what was done for it

inputVars == <<csv_rows, current_row_index, current_row>>

placesVars == <<places_result, places_found, latitude, longitude, places_type>>

standardVars == <<standardized_name, standardized_address>>

databaseVars == <<existing_premises, duplicate_found, state_id, state_code>>

scoreVars == <<confidence_score, matched_premise_id>>

occupancyVars == <<occupancy_type_options, selected_occupancy_type>>

verifyVars == <<verification_passed, validation_errors>>

accumulators == <<successful_rows, error_rows, duplicate_log>>

vars ==
  <<inputVars, placesVars, standardVars, databaseVars, scoreVars, occupancyVars,
    output_row, accumulators, verifyVars, next_step, error_message, pc, files, rowlog>>

\* run_premises_processing: initial_state, and the entry point of the graph
Init ==
  /\ \E n \in 0..MaxRows : csv_rows \in [1..n -> RawRows(n)]
  /\ current_row_index = 0
  /\ current_row = EmptyDict
  /\ places_result = None
  /\ places_found = FALSE
  /\ standardized_name = <<>>
  /\ standardized_address = EmptyDict
  /\ latitude = None
  /\ longitude = None
  /\ places_type = None
  /\ existing_premises = <<>>
  /\ duplicate_found = FALSE
  /\ confidence_score = None
  /\ matched_premise_id = None
  /\ state_id = None
  /\ state_code = None
  /\ occupancy_type_options = <<>>
  /\ selected_occupancy_type = None
  /\ output_row = None
  /\ successful_rows = <<>>
  /\ error_rows = <<>>
  /\ duplicate_log = <<>>
  /\ verification_passed = FALSE
  /\ validation_errors = <<>>
  /\ next_step = "parse_row"
  /\ error_message = None
  /\ pc = "parse_row"
  /\ files \in {NoFiles, StaleFiles}
  /\ rowlog = <<>>

-----------------------------------------------------------------------------
(* graph/nodes/routers.py: each router reads the state the node just updated *)

route_after_parse(step) == IF step = "write_output" THEN "write_output" ELSE "places_search"

\* variant: places_search is always followed by standardize
route_after_places_Lenient(step) == "standardize"

route_after_places(step) == IF step = "standardize" THEN "standardize" ELSE "error_handler"

\* variant: database_query is always followed by confidence_scoring
route_after_database_Scored(step) == "confidence_scoring"

route_after_database(step) ==
  IF step = "confidence_scoring" THEN "confidence_scoring" ELSE "occupancy_classification"

route_after_confidence(step) ==
  IF step = "log_duplicate" THEN "log_duplicate" ELSE "occupancy_classification"

\* variant: a row that failed validation is resolved again
route_after_verify_Retry(step) == IF step = "next_row" THEN "next_row" ELSE "places_search"

route_after_verify(step) == IF step = "next_row" THEN "next_row" ELSE "error_handler"

\* variant: next_row skips a row
NextIndex_Skips(current_index) == current_index + 2

\* next_row_node: 'current_row_index': current_index + 1
NextIndex(current_index) == current_index + 1

route_next_row(rows, current_index) ==
  LET next_index == current_index + 1
  IN  IF next_index < Len(rows) THEN "parse_row" ELSE "write_output"

-----------------------------------------------------------------------------
(* History of the row being processed *)

\* row: the row as parse_row normalized it;
\* base: the lengths of the three accumulators when the row was parsed;
\* geocode, search: the collaborator's answer, wrapped, None while not called;
\* nearby: whether the nearby query found a candidate, None while not issued;
\* query: the arguments of the nearby query, candidates: what it returned;
\* standardized: the name standardize computed, wrapped;
\* calls: the collaborator interfaces called for the row, in call order;
\* compared: the existing record handed to the scorer, wrapped;
\* new_name: the name of the new record handed to the scorer, wrapped;
\* scorer, classifier: the answer of the scorer, of the classifier, wrapped;
\* options: the category options occupancy_classification had, wrapped;
\* score: the score confidence_scoring computed; verify: the validation_errors
\* verify_output computed
NewRowLog(index, row) ==
  [index |-> index, row |-> row, steps |-> <<"parse_row">>, added |-> <<>>,
   base |-> <<Len(successful_rows), Len(error_rows), Len(duplicate_log)>>,
   geocode |-> None, search |-> None, nearby |-> None, query |-> None,
   candidates |-> None, standardized |-> None, calls |-> <<>>, compared |-> None,
   new_name |-> None,
   scorer |-> None,
   score |-> None, options |-> None, classifier |-> None, verify |-> None]

\* the calls places_search_node made: geocode_address, then search_place
PlacesCalls(u) ==
  (IF u.geocode_calls > 0 THEN <<"Geocode">> ELSE <<>>)
    \o (IF u.search_calls > 0 THEN <<"SearchPlace">> ELSE <<>>)

\* the calls database_query_node made: get_state_by_code, get_state_by_name
\* after a miss when the address names a state, query_premises_by_location
DatabaseCalls(address, by_code, queried) ==
  LET code == Get(address, "state_code", <<>>)
      name == Get(address, "state", <<>>)
  IN  (IF code # <<>> THEN <<"LookupStateByCode">> ELSE <<>>)
        \o (IF code # <<>> /\ by_code = None /\ name # <<>>
              THEN <<"LookupStateByName">> ELSE <<>>)
        \o (IF queried THEN <<"QueryNearby">> ELSE <<>>)

\* the calls occupancy_classification_node made: get_occupancy_types_by_state,
\* then classify_occupancy_type when there are options
OccupancyCalls(code, occupancy_options) ==
  (IF TruthyStr(code) THEN <<"ListCategoriesForState">> ELSE <<>>)
    \o (IF occupancy_options # <<>> THEN <<"ClassifyCategory">> ELSE <<>>)

Grown(old, new, name) == IF new # old THEN <<name>> ELSE <<>>

\* the log once the current (last) row has run step: the step, and the
\* accumulators the step changed
Logged(step) ==
  [rowlog EXCEPT ![Len(rowlog)].steps = Append(@, step),
                 ![Len(rowlog)].added =
                    @ \o Grown(successful_rows, successful_rows', "successful_rows")
                      \o Grown(error_rows, error_rows', "error_rows")
                      \o Grown(duplicate_log, duplicate_log', "duplicate_log")]

-----------------------------------------------------------------------------
(* The nodes *)

parse_row ==
  /\ pc = "parse_row"
  /\ UNCHANGED <<placesVars, standardVars, databaseVars, scoreVars, occupancyVars,
                 output_row, accumulators, verifyVars, files>>
  /\ IF current_row_index >= Len(csv_rows)
       THEN /\ next_step' = "write_output"
            /\ error_message' = None
            /\ UNCHANGED <<inputVars, rowlog>>
       ELSE /\ ~ParseRaises(csv_rows[current_row_index + 1])
            /\ current_row' = NormalizeRow(csv_rows[current_row_index + 1])
            /\ current_row_index' = current_row_index
            /\ next_step' = "places_search"
            /\ error_message' = None
            /\ rowlog' = Append(rowlog, NewRowLog(current_row_index, current_row'))
            /\ UNCHANGED csv_rows
  /\ pc' = route_after_parse(next_step')

\* the AttributeError leaves parse_row_node and graph.invoke
parse_row_raises ==
  /\ pc = "parse_row"
  /\ current_row_index < Len(csv_rows)
  /\ ParseRaises(csv_rows[current_row_index + 1])
  /\ UNCHANGED <<inputVars, placesVars, standardVars, databaseVars, scoreVars,
                 occupancyVars, output_row, accumulators, verifyVars, next_step,
                 error_message, files, rowlog>>
  /\ pc' = "ABORTED"

places_search ==
  /\ pc = "places_search"
  /\ UNCHANGED <<inputVars, standardVars, databaseVars, scoreVars, occupancyVars,
                 output_row, accumulators, verifyVars, files>>
  /\ \E geocode \in GeocodeAnswers(csv_rows), place \in SearchAnswers(csv_rows) :
       LET u == PlacesSearchUpdate(current_row, geocode, place)
       IN  /\ places_result' = u.places_result
           /\ places_found' = u.places_found
           /\ latitude' = u.latitude
           /\ longitude' = u.longitude
           /\ places_type' = u.places_type
           /\ next_step' = u.next_step
           /\ error_message' = u.error_message
           /\ rowlog' = [Logged("places_search") EXCEPT
                           ![Len(rowlog)].geocode =
                              IF u.geocode_calls > 0 THEN Some(geocode) ELSE None,
                           ![Len(rowlog)].search =
                              IF u.search_calls > 0 THEN Some(place) ELSE None,
                           ![Len(rowlog)].calls = @ \o PlacesCalls(u)]
  /\ pc' = route_after_places(next_step')

standardize ==
  /\ pc = "standardize"
  /\ UNCHANGED <<inputVars, placesVars, databaseVars, scoreVars, occupancyVars,
                 output_row, accumulators, verifyVars, files>>
  /\ standardized_name' = StandardizedName(current_row, places_result, places_found)
  /\ standardized_address' = StandardizedAddress(current_row, places_result, places_found)
  /\ next_step' = "database_query"
  /\ error_message' = None
  /\ rowlog' = [Logged("standardize") EXCEPT
                  ![Len(rowlog)].standardized = Some(standardized_name')]
  /\ pc' = "database_query"

database_query ==
  /\ pc = "database_query"
  /\ UNCHANGED <<inputVars, placesVars, standardVars, scoreVars, occupancyVars,
                 output_row, accumulators, verifyVars, files>>
  /\ \E by_code \in StateByCodeAnswers(csv_rows), by_name \in StateByNameAnswers(csv_rows),
        nearby \in NearbyAnswers(csv_rows) :
       LET queried == NearbyQueried(latitude, longitude)
           found == IF queried THEN nearby ELSE <<>>
       IN  /\ existing_premises' = found
           /\ duplicate_found' = (found # <<>>)
           /\ state_id' = ResolveStateId(standardized_address, by_code, by_name)
           /\ state_code' = Some(Get(standardized_address, "state_code", <<>>))
           /\ next_step' = IF found # <<>> THEN "confidence_scoring"
                           ELSE "occupancy_classification"
           /\ rowlog' = [Logged("database_query") EXCEPT
                           ![Len(rowlog)].nearby =
                              IF queried THEN Some(found # <<>>) ELSE None,
                           ![Len(rowlog)].query =
                              IF queried
                                THEN Some(NearbyQuery(latitude, longitude, state_id'))
                                ELSE None,
                           ![Len(rowlog)].candidates =
                              IF queried THEN Some(found) ELSE None,
                           ![Len(rowlog)].calls =
                              @ \o DatabaseCalls(standardized_address, by_code, queried)]
  /\ error_message' = None
  /\ pc' = route_after_database(next_step')

\* LIVDatabaseTool raises (no connection): no node catches it
database_query_raises ==
  /\ pc = "database_query"
  /\ UNCHANGED <<inputVars, placesVars, standardVars, databaseVars, scoreVars,
                 occupancyVars, output_row, accumulators, verifyVars, next_step,
                 error_message, files>>
  /\ pc' = "ABORTED"
  /\ rowlog' = Logged("database_query")

\* variant: the farthest candidate is compared
ComparedPremise_Farthest(candidates) == candidates[Len(candidates)]

\* existing = existing_premises[0]
ComparedPremise(candidates) == candidates[1]

confidence_scoring ==
  /\ pc = "confidence_scoring"
  /\ UNCHANGED <<inputVars, placesVars, standardVars, databaseVars, occupancyVars,
                 output_row, accumulators, verifyVars, files>>
  /\ IF existing_premises = <<>>
       THEN /\ confidence_score' = None
            /\ matched_premise_id' = None
            /\ next_step' = "occupancy_classification"
            /\ rowlog' = Logged("confidence_scoring")
       ELSE \E response \in ScoreAnswers(csv_rows) :
              LET score == score_duplicate_confidence(response)
              IN  /\ confidence_score' = Some(score)
                  /\ matched_premise_id' = Some(ComparedPremise(existing_premises).id)
                  /\ next_step' = StepAfterScore(score)
                  /\ rowlog' = [Logged("confidence_scoring") EXCEPT
                                  ![Len(rowlog)].scorer = Some(response),
                                  ![Len(rowlog)].compared =
                                     Some(ComparedPremise(existing_premises)),
                                  ![Len(rowlog)].new_name =
                                     Some(ComparisonName(current_row, standardized_name)),
                                  ![Len(rowlog)].calls =
                                     Append(@, "ScoreDuplicateConfidence"),
                                  ![Len(rowlog)].score = Some(score)]
  /\ error_message' = None
  /\ pc' = route_after_confidence(next_step')

\* variant: a state without categories leaves no message
OccupancyUpdate_Silent(occupancy_options, response) ==
  [occupancy_type_options |-> occupancy_options,
   selected_occupancy_type |->
     IF occupancy_options = <<>> THEN None
     ELSE SelectedOccupancy(classify_occupancy_type(response, occupancy_options),
                            occupancy_options),
   next_step |-> "format_output",
   error_message |-> None]

\* the update occupancy_classification_node returns for the options the
\* records store lists (none when state_code is falsy) and the classifier's answer
OccupancyUpdate(occupancy_options, response) ==
  IF occupancy_options = <<>>
    THEN [occupancy_type_options |-> <<>>,
          selected_occupancy_type |-> None,
          next_step |-> "format_output",
          error_message |-> <<"No occupancy types available for state">>]
    ELSE [occupancy_type_options |-> occupancy_options,
          selected_occupancy_type |->
            SelectedOccupancy(classify_occupancy_type(response, occupancy_options),
                              occupancy_options),
          next_step |-> "format_output",
          error_message |-> None]

occupancy_classification ==
  /\ pc = "occupancy_classification"
  /\ UNCHANGED <<inputVars, placesVars, standardVars, databaseVars, scoreVars,
                 output_row, accumulators, verifyVars, files>>
  /\ \E options \in OccupancyAnswers(csv_rows), response \in ClassifyAnswers(csv_rows) :
       LET occupancy_options == IF TruthyStr(state_code) THEN options ELSE <<>>
           u == OccupancyUpdate(occupancy_options, response)
       IN  /\ occupancy_type_options' = u.occupancy_type_options
           /\ selected_occupancy_type' = u.selected_occupancy_type
           /\ next_step' = u.next_step
           /\ error_message' = u.error_message
           /\ rowlog' = [Logged("occupancy_classification") EXCEPT
                           ![Len(rowlog)].options = Some(occupancy_options),
                           ![Len(rowlog)].classifier =
                              IF occupancy_options # <<>> THEN Some(response) ELSE None,
                           ![Len(rowlog)].calls =
                              @ \o OccupancyCalls(state_code, occupancy_options)]
  /\ pc' = "format_output"

occupancy_classification_raises ==
  /\ pc = "occupancy_classification"
  /\ UNCHANGED <<inputVars, placesVars, standardVars, databaseVars, scoreVars,
                 occupancyVars, output_row, accumulators, verifyVars, next_step,
                 error_message, files>>
  /\ pc' = "ABORTED"
  /\ rowlog' = Logged("occupancy_classification")

\* variant: the formatted row is counted as successful at once
SuccessfulAfterFormat_Appends(rows, record) == rows \o <<record>>

\* variant: format_output starts successful_rows afresh with the record
SuccessfulAfterFormat_Replaces(rows, record) == <<record>>

\* format_output_node reads successful_rows and returns no update of it
SuccessfulAfterFormat(rows, record) == rows

format_output ==
  /\ pc = "format_output"
  /\ UNCHANGED <<inputVars, placesVars, standardVars, databaseVars, scoreVars,
                 occupancyVars, error_rows, duplicate_log, verifyVars, files>>
  /\ output_row' = Some(format_output_row(standardized_name, standardized_address,
                          latitude, longitude, selected_occupancy_type, state_code,
                          confidence_score))
  /\ successful_rows' = SuccessfulAfterFormat(successful_rows, output_row'[1])
  /\ next_step' = "verify_output"
  /\ error_message' = None
  /\ rowlog' = Logged("format_output")
  /\ pc' = "verify_output"

\* variant: the row is appended whatever the rules say
SuccessfulAfterVerify_Always(rows, record, errors) == rows \o <<record>>

\* successful_rows as verify_output_node returns it (the key is absent from the
\* update, hence unchanged, when a rule is violated)
SuccessfulAfterVerify(rows, record, errors) ==
  IF errors # <<>> THEN rows ELSE rows \o <<record>>

\* variant: a failed validation moves on to the next row
StepAfterVerify_Ignores(errors) == "next_row"

\* next_step as verify_output_node returns it
StepAfterVerify(errors) == IF errors # <<>> THEN "error_handler" ELSE "next_row"

verify_output ==
  /\ pc = "verify_output"
  /\ UNCHANGED <<inputVars, placesVars, standardVars, databaseVars, scoreVars,
                 occupancyVars, output_row, error_rows, duplicate_log, files>>
  /\ LET errors == ValidationErrors(output_row[1])
     IN  /\ successful_rows' = SuccessfulAfterVerify(successful_rows, output_row[1], errors)
         /\ verification_passed' = (errors = <<>>)
         /\ validation_errors' = errors
         /\ next_step' = StepAfterVerify(errors)
         /\ error_message' =
              IF errors # <<>> THEN ValidationFailedMessage(errors) ELSE None
         /\ rowlog' = [Logged("verify_output") EXCEPT ![Len(rowlog)].verify = Some(errors)]
  /\ pc' = route_after_verify(next_step')

\* error_entry = {**current_row, 'error_reason': error_message}
ErrorEntry(row, message) == Put(row, S_error_reason, message)

\* variant: the entry is put in front
ErrorRowsAfter_InFront(rows, entry) == <<entry>> \o rows

\* error_rows.append(error_entry)
ErrorRowsAfter(rows, entry) == Append(rows, entry)

error_handler ==
  /\ pc = "error_handler"
  /\ UNCHANGED <<inputVars, placesVars, standardVars, databaseVars, scoreVars,
                 occupancyVars, output_row, successful_rows, duplicate_log,
                 verifyVars, files>>
  /\ error_rows' = ErrorRowsAfter(error_rows, ErrorEntry(current_row, error_message))
  /\ next_step' = "next_row"
  /\ error_message' = None
  /\ rowlog' = Logged("error_handler")
  /\ pc' = "next_row"

\* variant: the entry names the source by its standardized name
DuplicateEntry_Renamed(row, name, premise_id, score) ==
  [source_name |-> name,
   source_address |-> Get(row, S_address, <<>>),
   standardized_name |-> name,
   matched_premise_id |-> premise_id,
   confidence_score |-> score,
   reason |-> <<"High confidence match (score: ",
                IF score = None THEN "None" ELSE ToString(score[1]), ")">>]

DuplicateEntry(row, name, premise_id, score) ==
  [source_name |-> Get(row, S_name, <<>>),
   source_address |-> Get(row, S_address, <<>>),
   standardized_name |-> name,
   matched_premise_id |-> premise_id,
   confidence_score |-> score,
   reason |-> <<"High confidence match (score: ",
                IF score = None THEN "None" ELSE ToString(score[1]), ")">>]

log_duplicate ==
  /\ pc = "log_duplicate"
  /\ UNCHANGED <<inputVars, placesVars, standardVars, databaseVars, scoreVars,
                 occupancyVars, output_row, successful_rows, error_rows,
                 verifyVars, files>>
  /\ duplicate_log' = Append(duplicate_log,
        DuplicateEntry(current_row, standardized_name, matched_premise_id, confidence_score))
  /\ next_step' = "next_row"
  /\ error_message' = None
  /\ rowlog' = Logged("log_duplicate")
  /\ pc' = "next_row"

next_row ==
  /\ pc = "next_row"
  /\ UNCHANGED <<csv_rows, latitude, longitude, places_type, standardVars,
                 duplicate_found, state_id, state_code, occupancyVars, output_row,
                 accumulators, verifyVars, files>>
  /\ current_row_index' = NextIndex(current_row_index)
  /\ current_row' = EmptyDict
  /\ places_result' = None
  /\ places_found' = FALSE
  /\ existing_premises' = <<>>
  /\ confidence_score' = None
  /\ matched_premise_id' = None
  /\ next_step' = "parse_row"
  /\ error_message' = None
  /\ rowlog' = Logged("next_row")
  /\ pc' = route_next_row(csv_rows, current_row_index')

\* the file a non-empty accumulator is written to; an empty one writes nothing
Written(rows, file) == IF rows # <<>> THEN <<"file", rows>> ELSE file

write_output ==
  /\ pc = "write_output"
  /\ UNCHANGED <<inputVars, placesVars, standardVars, databaseVars, scoreVars,
                 occupancyVars, output_row, accumulators, verifyVars, rowlog>>
  /\ files' = [processed |-> Written(successful_rows, files.processed),
               errors |-> Written(error_rows, files.errors),
               duplicates |-> Written(duplicate_log, files.duplicates)]
  /\ next_step' = "END"
  /\ error_message' = None
  /\ pc' = "END"

Next ==
  \/ parse_row
  \/ parse_row_raises
  \/ places_search
  \/ standardize
  \/ database_query
  \/ database_query_raises
  \/ confidence_scoring
  \/ occupancy_classification
  \/ occupancy_classification_raises
  \/ format_output
  \/ verify_output
  \/ error_handler
  \/ log_duplicate
  \/ next_row
  \/ write_output

Spec == Init /\ [][Next]_vars

\* The steps of a run in which every call of the records store returns
NextReturning ==
  \/ parse_row
  \/ parse_row_raises
  \/ places_search
  \/ standardize
  \/ database_query
  \/ confidence_scoring
  \/ occupancy_classification
  \/ format_output
  \/ verify_output
  \/ error_handler
  \/ log_duplicate
  \/ next_row
  \/ write_output

\* the nodes of the graph, END, and the position after an uncaught exception
Positions ==
  {"parse_row", "places_search", "standardize", "database_query", "confidence_scoring",
   "occupancy_classification", "format_output", "verify_output", "error_handler",
   "log_duplicate", "next_row", "write_output", "END", "ABORTED"}

\* a node is scheduled: the run has neither ended nor been aborted
Running == pc \notin {"END", "ABORTED"}

\* graph.invoke runs the scheduled node and moves on (no node routes to itself)
RunScheduledNode == Running /\ pc' \in Positions \ {pc}

\* graph.invoke keeps running the scheduled node as long as there is one
LiveSpec == Init /\ [][NextReturning]_vars /\ WF_pc(RunScheduledNode)

-----------------------------------------------------------------------------
(* Properties *)

Last(s) == s[Len(s)]

Rows == 1..Len(rowlog)

\* the row has run step
Ran(i, step) == \E k \in 1..Len(rowlog[i].steps) : rowlog[i].steps[k] = step

\* the steps the row ran after its first run of step
StepsAfter(i, step) ==
  LET steps == rowlog[i].steps
      k == CHOOSE k \in 1..Len(steps) :
             steps[k] = step /\ \A j \in 1..(k - 1) : steps[j] # step
  IN  SubSeq(steps, k + 1, Len(steps))

IsPrefix(s, t) == Len(s) <= Len(t) /\ s = SubSeq(t, 1, Len(s))

\* the accumulator lengths when row i handed over: those the next row was
\* parsed with, the present ones for the last row
LengthsAfter(i) ==
  IF i < Len(rowlog) THEN rowlog[i + 1].base
  ELSE <<Len(successful_rows), Len(error_rows), Len(duplicate_log)>>

\* how much each accumulator grew while row i was processed
Growth(i) == [k \in 1..3 |-> LengthsAfter(i)[k] - rowlog[i].base[k]]

\* C1 (as stated): when the run has ended, every input row 0..N-1 has been
\* processed and has exactly one entry in exactly one accumulator, so the three
\* accumulator lengths sum to N
C1_EveryRowDisposedOnce ==
  pc = "END" =>
    /\ Len(rowlog) = Len(csv_rows)
    /\ \A i \in Rows : rowlog[i].index = i - 1 /\ Len(rowlog[i].added) = 1
    /\ Len(successful_rows) + Len(error_rows) + Len(duplicate_log) = Len(csv_rows)

\* C2: from a row's parse_row to its next_row at most one accumulator grows,
\* and by exactly one entry; once the row reaches next_row exactly one has grown
C2_OneEntryPerRow ==
  \A i \in Rows :
    /\ \A k \in 1..3 : Growth(i)[k] \in {0, 1}
    /\ Growth(i)[1] + Growth(i)[2] + Growth(i)[3] <= 1
    /\ Growth(i)[1] + Growth(i)[2] + Growth(i)[3] = Len(rowlog[i].added)
    /\ (Ran(i, "next_row") \/ (i = Len(rowlog) /\ pc = "next_row"))
         => Growth(i)[1] + Growth(i)[2] + Growth(i)[3] = 1

\* a second row has handed over after the first, each with its one entry
C2_Witness ==
  /\ Len(rowlog) >= 2
  /\ Ran(1, "next_row")
  /\ Growth(1)[2] = 1
  /\ pc = "next_row"
  /\ Growth(2)[1] = 1

\* C3: a row scored 8 or more gets an entry in duplicate_log and none in
\* successful_rows; a row scored below 8, or whose nearby query found no
\* candidate, gets no entry in duplicate_log. Entries carry the score they
\* were routed on.
C3_DuplicateIffHighScore ==
  /\ \A i \in Rows :
       LET r == rowlog[i]
       IN  /\ (r.score # None /\ r.score[1] >= 8) =>
                /\ ~ \E k \in 1..Len(r.added) : r.added[k] = "successful_rows"
                /\ Growth(i)[1] = 0
                /\ IsPrefix(StepsAfter(i, "confidence_scoring"),
                            <<"log_duplicate", "next_row">>)
                /\ Ran(i, "log_duplicate") => r.added = <<"duplicate_log">>
                /\ Len(r.steps) = 4 /\ i = Len(rowlog) => pc = "log_duplicate"
           /\ ((r.score # None /\ r.score[1] < 8) \/ r.nearby = Some(FALSE)
                 \/ r.score = None) =>
                /\ ~ \E k \in 1..Len(r.added) : r.added[k] = "duplicate_log"
                /\ Growth(i)[3] = 0
                /\ ~ Ran(i, "log_duplicate")
  /\ \A k \in 1..Len(duplicate_log) :
       duplicate_log[k].confidence_score # None
         /\ duplicate_log[k].confidence_score[1] >= 8

\* one row scored exactly 8 and was logged as a duplicate, another scored
\* below 8 and was accepted
C3_Witness ==
  \E i, j \in Rows :
    /\ rowlog[i].score = Some(8) /\ rowlog[i].added = <<"duplicate_log">>
    /\ rowlog[j].score # None /\ rowlog[j].score[1] < 8
    /\ rowlog[j].added = <<"successful_rows">>

\* C4: successful_rows is appended to only by verify_output, and only with the
\* formatted record when it violates no validation rule; every entry of
\* successful_rows passes all the rules
C4_OnlyVerifiedRowsSucceed ==
  /\ [](\A k \in 1..Len(successful_rows) : ValidationErrors(successful_rows[k]) = <<>>)
  /\ [][successful_rows' # successful_rows =>
          /\ pc = "verify_output"
          /\ output_row # None
          /\ ValidationErrors(output_row[1]) = <<>>
          /\ successful_rows' = Append(successful_rows, output_row[1])]_vars

\* a row went through every step and verify_output accepted it
C4_Witness ==
  /\ rowlog # <<>>
  /\ Last(Last(rowlog).steps) = "verify_output"
  /\ Len(successful_rows) = Last(rowlog).base[1] + 1
  /\ Last(successful_rows) = output_row[1]

\* the text is two uppercase letters and nothing else
IsStateCode(s) == Len(s) = 2 /\ \A i \in 1..2 : IsUpperChar(s[i])

\* the text is 5 digits, or 5 digits, a hyphen and 4 digits, and nothing else
IsZip(s) ==
  \/ Len(s) = 5 /\ \A i \in 1..5 : s[i] \in DigitChars
  \/ /\ Len(s) = 10
     /\ \A i \in 1..5 : s[i] \in DigitChars
     /\ s[6] = "-"
     /\ \A i \in 7..10 : s[i] \in DigitChars

\* the record's coordinates are numbers in range and not both 0
CoordinatesInRange(o) ==
  /\ o.Latitude # <<>> /\ o.Longitude # <<>>
  /\ -90000 <= o.Latitude[1] /\ o.Latitude[1] <= 90000
  /\ -180000 <= o.Longitude[1] /\ o.Longitude[1] <= 180000
  /\ ~(o.Latitude[1] = 0 /\ o.Longitude[1] = 0)

\* C5 (as stated): every entry of successful_rows has Latitude in [-90,90],
\* Longitude in [-180,180], not both 0, a State of exactly two uppercase
\* letters and a Postal Code of 5 digits or 5 digits, a hyphen and 4 digits
C5_AcceptedRowsWellFormed ==
  \A k \in 1..Len(successful_rows) :
    /\ CoordinatesInRange(successful_rows[k])
    /\ IsStateCode(successful_rows[k].State)
    /\ IsZip(successful_rows[k].Postal_Code)

\* next_row was the last step taken for a row
AfterNextRow == rowlog # <<>> /\ Last(Last(rowlog).steps) = "next_row"

\* C6 (as stated): after next_row every row-scoped field holds its cleared
\* initial value, and current_row_index is one more than the index of the row
\* just handed over
C6_NextRowClearsRowFields ==
  AfterNextRow =>
    /\ current_row = EmptyDict
    /\ places_result = None
    /\ places_found = FALSE
    /\ latitude = None
    /\ longitude = None
    /\ places_type = None
    /\ standardized_name = <<>>
    /\ standardized_address = EmptyDict
    /\ existing_premises = <<>>
    /\ duplicate_found = FALSE
    /\ confidence_score = None
    /\ matched_premise_id = None
    /\ state_id = None
    /\ state_code = None
    /\ occupancy_type_options = <<>>
    /\ selected_occupancy_type = None
    /\ output_row = None
    /\ verification_passed = FALSE
    /\ validation_errors = <<>>
    /\ error_message = None
    /\ current_row_index = Last(rowlog).index + 1

\* the rows that got an error entry
Failed == {i \in Rows : \E k \in 1..Len(rowlog[i].added) : rowlog[i].added[k] = "error_rows"}

\* the error entry of a row of Failed
ErrorEntryOf(i) == error_rows[rowlog[i].base[2] + 1]

\* the row of the input file the log entry is about
RawRowOf(i) == csv_rows[rowlog[i].index + 1]

\* C7 (as stated): every entry of error_rows holds every column of its input
\* row with the column's value, and a non-empty error_reason
C7_ErrorEntryKeepsRawRow ==
  \A i \in Failed :
    /\ \A k \in 1..Len(RawRowOf(i)) :
         /\ RawRowOf(i)[k][1] \in DOMAIN ErrorEntryOf(i)
         /\ ErrorEntryOf(i)[RawRowOf(i)[k][1]] = RawRowOf(i)[k][2]
    /\ S_error_reason \in DOMAIN ErrorEntryOf(i)
    /\ ErrorEntryOf(i)[S_error_reason] # <<>>

\* the canonical fields places_search reads of the row
FieldOf(i, key) == Get(rowlog[i].row, key, <<>>)

\* the row lacks an address, a city or a state
Incomplete(i) ==
  FieldOf(i, S_address) = <<>> \/ FieldOf(i, S_city) = <<>> \/ FieldOf(i, S_state) = <<>>

\* the row's upper-cased state is one of the 50 US codes or DC
ValidState(i) == Upper(FieldOf(i, S_state)) \in VALID_US_STATE_CODES

\* the row is the one being processed and step was the last step taken for it
JustRan(i, step) == i = Len(rowlog) /\ Last(rowlog[i].steps) = step

\* C8: a row whose address, city or state is empty, or whose upper-cased state
\* is not a US code, is routed by places_search to error_handler with the
\* reason 'Incomplete address information', respectively 'Invalid US state
\* code', and neither geocode nor place search is called for it
C8_BadInputRejectedWithoutCalls ==
  \A i \in Rows :
    (Ran(i, "places_search") /\ (Incomplete(i) \/ ~ValidState(i))) =>
      LET named(reason) ==
            IF Incomplete(i) THEN reason = <<"Incomplete address information">>
            ELSE reason # <<>> /\ Head(reason) = "Invalid US state code: "
      IN  /\ rowlog[i].geocode = None
          /\ rowlog[i].search = None
          /\ IsPrefix(StepsAfter(i, "places_search"), <<"error_handler", "next_row">>)
          /\ JustRan(i, "places_search") =>
               pc = "error_handler" /\ named(error_message)
          /\ Ran(i, "error_handler") =>
               i \in Failed /\ named(ErrorEntryOf(i)[S_error_reason])

\* a row with a state that is no US code got its error entry
C8_Witness ==
  \E i \in Rows :
    /\ ~Incomplete(i) /\ ~ValidState(i)
    /\ Ran(i, "next_row")
    /\ ErrorEntryOf(i)[S_error_reason] = <<"Invalid US state code: ", "X", "X">>

\* C9: a row with an address, a city and a valid state is routed by
\* places_search to error_handler exactly when geocode misses, with a reason
\* beginning 'Address not found'; when geocode succeeds it is routed to
\* standardize with places_found true, whatever place search answers
C9_ErrorIffGeocodeMisses ==
  \A i \in Rows :
    (Ran(i, "places_search") /\ ~Incomplete(i) /\ ValidState(i)) =>
      LET miss == rowlog[i].geocode = Some(None)
      IN  /\ rowlog[i].geocode # None
          /\ Len(rowlog[i].steps) >= 3 =>
               rowlog[i].steps[3] = (IF miss THEN "error_handler" ELSE "standardize")
          /\ JustRan(i, "places_search") =>
               /\ pc = (IF miss THEN "error_handler" ELSE "standardize")
               /\ miss => Head(error_message) = "Address not found: "
               /\ ~miss => places_found = TRUE /\ error_message = None
          /\ (miss /\ Ran(i, "error_handler")) =>
               i \in Failed /\ Head(ErrorEntryOf(i)[S_error_reason]) = "Address not found: "
          /\ (~miss /\ i = Len(rowlog) /\ ~Ran(i, "next_row")) => places_found = TRUE

\* geocode succeeded, the candidate of place search was discarded as too far,
\* and the row goes on to standardize under the user's name
C9_Witness ==
  /\ rowlog # <<>>
  /\ JustRan(Len(rowlog), "places_search")
  /\ Last(rowlog).geocode # None /\ Last(rowlog).geocode[1] # None
  /\ Last(rowlog).search # None /\ Last(rowlog).search[1] # None
  /\ Last(rowlog).search[1][1].types = <<"restaurant">>
  /\ places_type = Some("premise")
  /\ places_found = TRUE
  /\ pc = "standardize"

NoRepeat(s) == \A j, k \in 1..Len(s) : s[j] = s[k] => j = k

\* C10: a row for which verify_output found a violation is routed to
\* error_handler, gets exactly one error entry whose reason is the joined
\* validation message, leaves successful_rows as it was, and has no step run
\* twice
C10_FailedValidationBecomesError ==
  \A i \in Rows :
    (rowlog[i].verify # None /\ rowlog[i].verify[1] # <<>>) =>
      /\ IsPrefix(StepsAfter(i, "verify_output"), <<"error_handler", "next_row">>)
      /\ NoRepeat(rowlog[i].steps)
      /\ JustRan(i, "verify_output") =>
           /\ pc = "error_handler"
           /\ error_message = ValidationFailedMessage(rowlog[i].verify[1])
      /\ Growth(i)[1] = 0
      /\ Growth(i)[3] = 0
      /\ Ran(i, "error_handler") =>
           /\ rowlog[i].added = <<"error_rows">>
           /\ Growth(i)[2] = 1
           /\ ErrorEntryOf(i)[S_error_reason] =
                <<"Output validation failed: ">> \o Join(rowlog[i].verify[1], "; ")

\* every upstream step succeeded, the provider's state is 'California', and the
\* row ended with the one error entry that says so
C10_Witness ==
  \E i \in Rows :
    /\ Ran(i, "next_row")
    /\ rowlog[i].steps = <<"parse_row", "places_search", "standardize", "database_query",
                           "occupancy_classification", "format_output", "verify_output",
                           "error_handler", "next_row">>
    /\ ErrorEntryOf(i)[S_error_reason] =
         <<"Output validation failed: ", "Invalid state code: ",
           "C", "a", "l", "i", "f", "o", "r", "n", "i", "a",
           " (must be 2 uppercase letters)">>

\* what identifies the rule a validation message reports: its opening words,
\* and the field for a missing required field
RuleOf(msg) ==
  IF Head(msg) = "Missing required field: " THEN <<msg[1], msg[2]>> ELSE <<msg[1]>>

\* the rules of verify_output the record violates, each under the opening
\* words of its message
When(violated, rule) == IF violated THEN {rule} ELSE {}

ViolatedRules(o) ==
  LET blank(v) == \A k \in 1..Len(v) : v[k] = " "
      missing(v, field) == When(blank(v), <<"Missing required field: ", field>>)
  IN  missing(o.Premise_Name, "Premise Name")
      \cup missing(o.Address_Line_1, "Address Line 1")
      \cup missing(o.City, "City")
      \cup missing(o.State, "State")
      \cup missing(o.Postal_Code, "Postal Code")
      \cup When(o.Status = "", <<"Missing required field: ", "Status">>)
      \cup When(o.Latitude = <<>>, <<"Missing required field: ", "Latitude">>)
      \cup When(o.Longitude = <<>>, <<"Missing required field: ", "Longitude">>)
      \cup missing(o.Premise_Occupancy, "Premise Occupancy")
      \cup When(o.Latitude = <<>> \/ o.Longitude = <<>>,
                <<"Latitude/Longitude must be valid numbers">>)
      \cup When(o.Latitude # <<>> /\ (o.Latitude[1] < -90000 \/ o.Latitude[1] > 90000),
                <<"Invalid latitude: ">>)
      \cup When(o.Longitude # <<>> /\ (o.Longitude[1] < -180000 \/ o.Longitude[1] > 180000),
                <<"Invalid longitude: ">>)
      \cup When(o.Latitude = <<0>> /\ o.Longitude = <<0>>,
                <<"Coordinates are 0,0 (likely invalid)">>)
      \cup When(o.State # <<>> /\ ~MatchesStateCode(o.State), <<"Invalid state code: ">>)
      \cup When(o.Postal_Code # <<>> /\ ~MatchesPostalCode(o.Postal_Code),
                <<"Invalid postal code format: ">>)
      \cup When(o.Status \notin {"Active", "Inactive"}, <<"Invalid status: ">>)
      \cup When(o.Country \notin {"", "USA"}, <<"Invalid country: ">>)
      \cup When(o.Country_ShortName \notin {"", "US"}, <<"Invalid country short name: ">>)

\* C11 (as stated): when verify_output has run, validation_errors holds exactly
\* one message for every rule the record violates, and error_message is
\* 'Output validation failed: ' followed by those messages joined by '; '
C11_EveryViolationReported ==
  (rowlog # <<>> /\ JustRan(Len(rowlog), "verify_output")) =>
    /\ {RuleOf(validation_errors[k]) : k \in 1..Len(validation_errors)}
         = ViolatedRules(output_row[1])
    /\ Len(validation_errors) = Cardinality(ViolatedRules(output_row[1]))
    /\ validation_errors # <<>> =>
         error_message = <<"Output validation failed: ">> \o Join(validation_errors, "; ")

\* C12 (as stated): a row resolved to coordinates of which exactly one is 0 and
\* the other is non-zero and in range, all other fields of its record being
\* valid, passes verify_output and is appended to successful_rows
C12_OneZeroCoordinateAccepted ==
  (rowlog # <<>> /\ JustRan(Len(rowlog), "verify_output")) =>
    LET lat == latitude[1]
        lng == longitude[1]
        others == [output_row[1] EXCEPT !.Latitude = <<1>>, !.Longitude = <<1>>]
    IN  (/\ latitude # None /\ longitude # None
         /\ \/ lat = 0 /\ lng # 0 /\ -180000 <= lng /\ lng <= 180000
            \/ lng = 0 /\ lat # 0 /\ -90000 <= lat /\ lat <= 90000
         /\ ViolatedRules(others) = {})
        => /\ verification_passed
           /\ Len(successful_rows) = Last(rowlog).base[1] + 1
           /\ Last(successful_rows) = output_row[1]

\* the rows that got a duplicate entry
Duplicates ==
  {i \in Rows : \E k \in 1..Len(rowlog[i].added) : rowlog[i].added[k] = "duplicate_log"}

\* C13: in each accumulator the entries are in strictly increasing order of the
\* input row they came from: rows are parsed in increasing index order, a
\* row's entry sits right after the entries of the rows before it, and the
\* entry at that place is the row's own
C13_EntriesInInputOrder ==
  /\ \A i, j \in Rows : i < j =>
       /\ rowlog[i].index < rowlog[j].index
       /\ \A k \in 1..3 : rowlog[i].base[k] + Growth(i)[k] <= rowlog[j].base[k]
  /\ \A i \in Failed :
       /\ rowlog[i].base[2] + 1 <= Len(error_rows)
       /\ \A key \in CanonicalKeys : ErrorEntryOf(i)[key] = rowlog[i].row[key]
  /\ \A i \in Duplicates :
       /\ rowlog[i].base[3] + 1 <= Len(duplicate_log)
       /\ duplicate_log[rowlog[i].base[3] + 1].source_name = rowlog[i].row[S_name]
       /\ duplicate_log[rowlog[i].base[3] + 1].source_address = rowlog[i].row[S_address]

\* two rows that differ failed one after the other
C13_Witness ==
  /\ Len(rowlog) >= 2
  /\ {1, 2} \subseteq Failed
  /\ rowlog[1].row # rowlog[2].row
  /\ Len(error_rows) = 2

\* every row of the input file has been parsed and has its one entry
AllRowsDisposed ==
  /\ Len(rowlog) = Len(csv_rows)
  /\ \A i \in Rows : Len(rowlog[i].added) = 1

\* C14 (as stated): write_output starts only when every input row has reached
\* its terminal disposition, the files of output/ are as the earlier run left
\* them until the run is at END, and the run is at END with next_step 'END'
C14_OutputOnlyAfterAllRows ==
  /\ pc \in {"write_output", "END"} => AllRowsDisposed
  /\ pc # "END" => files \in {NoFiles, StaleFiles}
  /\ pc = "END" => next_step = "END"

\* C15 (as stated): when every collaborator call returns, the run reaches END
C15_RunReachesEnd == <>(pc = "END")

\* what a file of output/ holds; a file that does not exist holds no rows
FileRows(file) == IF file = Absent THEN <<>> ELSE file[2]

\* C16 (as stated): at END the processed, errors and duplicates files hold the
\* rows of successful_rows, error_rows and duplicate_log
C16_FilesHoldAccumulators ==
  pc = "END" =>
    /\ FileRows(files.processed) = successful_rows
    /\ FileRows(files.errors) = error_rows
    /\ FileRows(files.duplicates) = duplicate_log

\* C17 (as stated): nothing that happens while a row is processed aborts the run
C17_NoRowAbortsRun == pc # "ABORTED"

\* C18: every score confidence_scoring gets is in 1..10, the scorer's number
\* clamped to that range; when the scorer raises or answers without a number
\* the score is below 8 and the row goes on to occupancy_classification, not
\* to error_handler
C18_ScorerFailureDegrades ==
  \A i \in Rows :
    rowlog[i].scorer # None =>
      LET answer == rowlog[i].scorer[1]
          score == rowlog[i].score[1]
          failed == answer[1] = "raise" \/ Len(answer) = 1
      IN  /\ rowlog[i].score # None
          /\ score \in 1..10
          /\ ~failed => score = (IF answer[2] < 1 THEN 1
                                 ELSE IF answer[2] > 10 THEN 10 ELSE answer[2])
          /\ failed =>
               /\ score < 8
               /\ JustRan(i, "confidence_scoring") =>
                    pc = "occupancy_classification" /\ error_message = None
               /\ StepsAfter(i, "confidence_scoring") # <<>> =>
                    Head(StepsAfter(i, "confidence_scoring")) = "occupancy_classification"
               /\ ~Ran(i, "log_duplicate")

\* the scorer raised and the row went on to be classified
C18_Witness ==
  \E i \in Rows :
    /\ rowlog[i].scorer = Some(<<"raise">>)
    /\ rowlog[i].score = Some(3)
    /\ Ran(i, "occupancy_classification")

\* C19 (as stated): when the row's state has a category option, after
\* occupancy_classification selected_occupancy_type is set, to the option the
\* classifier named when it named one of the list, to the first option otherwise
C19_CategoryAlwaysSelected ==
  (rowlog # <<>> /\ JustRan(Len(rowlog), "occupancy_classification")
     /\ Last(rowlog).options # None /\ Last(rowlog).options[1] # <<>>) =>
    LET options == Last(rowlog).options[1]
        answer == Last(rowlog).classifier[1]
        named == {k \in 1..Len(options) :
                    Len(answer) = 2 /\ options[k].occupancy_type_id = answer[2]}
    IN  /\ selected_occupancy_type # None
        /\ \E k \in 1..Len(options) : selected_occupancy_type[1] = options[k]
        /\ named # {} => selected_occupancy_type[1].occupancy_type_id = answer[2]
        /\ named = {} => selected_occupancy_type[1] = options[1]

\* C20: when the records store lists no category for the row's state, the row
\* goes from occupancy_classification to format_output, not to error_handler,
\* with no category set and error_message 'No occupancy types available for
\* state'; its record has an empty Premise Occupancy
C20_NoCategoriesStillFormats ==
  \A i \in Rows :
    rowlog[i].options = Some(<<>>) =>
      /\ JustRan(i, "occupancy_classification") =>
           /\ pc = "format_output"
           /\ next_step = "format_output"
           /\ selected_occupancy_type = None
           /\ occupancy_type_options = <<>>
           /\ error_message = <<"No occupancy types available for state">>
      /\ StepsAfter(i, "occupancy_classification") # <<>> =>
           Head(StepsAfter(i, "occupancy_classification")) = "format_output"
      /\ JustRan(i, "format_output") => output_row[1].Premise_Occupancy = <<>>

\* a geocoded, complete row met a state without categories and is about to be
\* formatted
C20_Witness ==
  /\ rowlog # <<>>
  /\ JustRan(Len(rowlog), "occupancy_classification")
  /\ Last(rowlog).options = Some(<<>>)
  /\ state_code = Some(<<"C", "A">>)
  /\ pc = "format_output"

\* rows whose record verify_output appended to successful_rows
Succeeded ==
  {i \in Rows : \E k \in 1..Len(rowlog[i].added) : rowlog[i].added[k] = "successful_rows"}

\* the entry of successful_rows that row i added
SuccessEntryOf(i) == successful_rows[rowlog[i].base[1] + 1]

\* C21: in every entry of successful_rows _duplicate_checked is true exactly
\* when the nearby query of that row returned a candidate, and _confidence_score
\* is the score computed for that row, None when no candidate was found
C21_MetadataIsTheRowsOwn ==
  \A i \in Succeeded :
    /\ SuccessEntryOf(i).duplicate_checked_meta = (rowlog[i].nearby = Some(TRUE))
    /\ SuccessEntryOf(i).confidence_score_meta = rowlog[i].score
    /\ rowlog[i].nearby # Some(TRUE) => SuccessEntryOf(i).confidence_score_meta = None

\* a row scored 6 against a candidate succeeded, then a row without candidate
C21_Witness ==
  /\ {1, 2} \subseteq Succeeded
  /\ rowlog[1].nearby = Some(TRUE)
  /\ rowlog[1].score = Some(6)
  /\ rowlog[2].nearby = Some(FALSE)
  /\ successful_rows[2].duplicate_checked_meta = FALSE

\* the entry of duplicate_log that row i added
DuplicateEntryOf(i) == duplicate_log[rowlog[i].base[3] + 1]

\* C22: every entry of duplicate_log belongs to a row for which
\* confidence_scoring computed a score of 8 or more, and holds that score, the
\* id of the nearest candidate found for that row, the row's name and address
\* and the name standardize computed for it
C22_DuplicateEntryIsTheRowsOwn ==
  /\ Len(duplicate_log) = Cardinality(Duplicates)
  /\ \A i \in Duplicates :
       /\ rowlog[i].score # None
       /\ rowlog[i].score[1] >= HIGH_CONFIDENCE
       /\ rowlog[i].candidates # None
       /\ rowlog[i].candidates[1] # <<>>
       /\ rowlog[i].standardized # None
       /\ DuplicateEntryOf(i).confidence_score = rowlog[i].score
       /\ DuplicateEntryOf(i).matched_premise_id = Some(rowlog[i].candidates[1][1].id)
       /\ DuplicateEntryOf(i).source_name = rowlog[i].row[S_name]
       /\ DuplicateEntryOf(i).source_address = rowlog[i].row[S_address]
       /\ DuplicateEntryOf(i).standardized_name = rowlog[i].standardized[1]

\* a row with two candidates was logged as a duplicate of the nearest one
C22_Witness ==
  /\ 1 \in Duplicates
  /\ Len(rowlog[1].candidates[1]) = 2
  /\ duplicate_log[1].matched_premise_id = Some(7)
  /\ duplicate_log[1].standardized_name # duplicate_log[1].source_name

\* the headers of the raw row are exactly the five canonical names
HeadersCanonical(raw_row) == {raw_row[k][1] : k \in 1..Len(raw_row)} = CanonicalKeys

\* the canonical fields some header of the raw row is mapped to
MatchedFields(raw_row) ==
  {key \in CanonicalKeys : \E k \in 1..Len(raw_row) : FieldOfHeader(raw_row[k][1]) = key}

\* C23 (as stated): for every raw row parse_row produces a current_row with
\* exactly the five canonical keys, '' for every field no header matches, and
\* the raw row's own values when its headers are the five canonical names;
\* parse_row changes no accumulator and not current_row_index
C23_ParseRowCanonical ==
  /\ [](\A i \in Rows :
          /\ DOMAIN rowlog[i].row = CanonicalKeys
          /\ \A key \in CanonicalKeys \ MatchedFields(RawRowOf(i)) : rowlog[i].row[key] = <<>>
          /\ HeadersCanonical(RawRowOf(i)) =>
               \A k \in 1..Len(RawRowOf(i)) :
                 rowlog[i].row[RawRowOf(i)[k][1]] = RawRowOf(i)[k][2])
  /\ [][pc = "parse_row" =>
          /\ UNCHANGED <<accumulators, current_row_index>>
          /\ current_row_index < Len(csv_rows) =>
               pc' = "places_search" /\ DOMAIN current_row' = CanonicalKeys]_vars

\* C24: for each row every step ran at most once and every collaborator
\* interface was called at most once; after error_handler the row runs only
\* next_row; no input row is parsed twice
C24_NothingRunsTwicePerRow ==
  \A i \in Rows :
    /\ NoRepeat(rowlog[i].steps)
    /\ NoRepeat(rowlog[i].calls)
    /\ Ran(i, "error_handler") => StepsAfter(i, "error_handler") \in {<<>>, <<"next_row">>}
    /\ \A j \in Rows : rowlog[i].index = rowlog[j].index => i = j

\* a row that called seven interfaces failed validation, and the next row
\* was rejected by places_search
C24_Witness ==
  /\ Len(rowlog) = 2
  /\ Ran(1, "verify_output")
  /\ Ran(1, "error_handler")
  /\ Len(rowlog[1].calls) >= 6
  /\ rowlog[2].steps = <<"parse_row", "places_search", "error_handler", "next_row">>

\* the history entries of the input row at position a of the file
LogsOf(a) == {i \in Rows : rowlog[i].index = a - 1}

\* rows i and j got the same answers from every collaborator
SameResponses(i, j) ==
  /\ rowlog[i].geocode = rowlog[j].geocode
  /\ rowlog[i].search = rowlog[j].search
  /\ rowlog[i].candidates = rowlog[j].candidates
  /\ rowlog[i].scorer = rowlog[j].scorer
  /\ rowlog[i].options = rowlog[j].options
  /\ rowlog[i].classifier = rowlog[j].classifier

\* the entry row i added to the accumulator it ended in
EntryOf(i) ==
  IF i \in Succeeded THEN SuccessEntryOf(i)
  ELSE IF i \in Failed THEN ErrorEntryOf(i)
  ELSE DuplicateEntryOf(i)

\* rows i and j ended in the same accumulator with the same entry
SameDisposition(i, j) ==
  /\ rowlog[i].added = rowlog[j].added
  /\ Len(rowlog[i].added) = 1
  /\ EntryOf(i) = EntryOf(j)

\* C25 (as stated): when the run has ended, any two input rows with the same
\* content have both been processed, and when they got the same collaborator
\* answers they ended in the same accumulator with the same entry
C25_EqualRowsEqualDisposition ==
  pc = "END" =>
    \A a, b \in 1..Len(csv_rows) :
      (a # b /\ csv_rows[a] = csv_rows[b]) =>
        /\ LogsOf(a) # {}
        /\ LogsOf(b) # {}
        /\ \A i \in LogsOf(a), j \in LogsOf(b) : SameResponses(i, j) => SameDisposition(i, j)

\* C26 (as stated): after next_row control goes to parse_row exactly when the
\* advanced current_row_index is less than the number of input rows, and
\* write_output is entered only with current_row_index equal to that number
C26_LoopUntilExhausted ==
  /\ [][pc = "next_row" =>
          (pc' = "parse_row" <=> current_row_index' < Len(csv_rows))]_vars
  /\ [](pc = "write_output" => current_row_index = Len(csv_rows))

\* the transitions of the state machine, as pairs <<step, successor>>
ListedTransitions ==
  {<<"parse_row", "places_search">>, <<"parse_row", "write_output">>,
   <<"places_search", "standardize">>, <<"places_search", "error_handler">>,
   <<"standardize", "database_query">>,
   <<"database_query", "confidence_scoring">>,
   <<"database_query", "occupancy_classification">>,
   <<"confidence_scoring", "log_duplicate">>,
   <<"confidence_scoring", "occupancy_classification">>,
   <<"occupancy_classification", "format_output">>,
   <<"format_output", "verify_output">>,
   <<"verify_output", "next_row">>, <<"verify_output", "error_handler">>,
   <<"error_handler", "next_row">>, <<"log_duplicate", "next_row">>,
   <<"next_row", "parse_row">>, <<"next_row", "write_output">>,
   <<"write_output", "END">>}

C28_RunScopedValuesOwned ==
  [][/\ successful_rows' # successful_rows => pc = "verify_output"
     /\ error_rows' # error_rows => pc = "error_handler"
     /\ duplicate_log' # duplicate_log => pc = "log_duplicate"
     /\ current_row_index' # current_row_index => pc = "next_row"
     /\ csv_rows' = csv_rows]_vars

\* two rows have been handed over, one accepted and one logged as a duplicate
C28_Witness ==
  /\ current_row_index = 2
  /\ successful_rows # <<>>
  /\ duplicate_log # <<>>
  /\ error_rows = <<>>

\* places_search routed row i to standardize
Resolved(i) ==
  /\ Ran(i, "places_search")
  /\ \/ JustRan(i, "places_search") /\ pc = "standardize"
     \/ /\ StepsAfter(i, "places_search") # <<>>
        /\ Head(StepsAfter(i, "places_search")) = "standardize"

\* database_query has run for row i and returned
Queried(i) ==
  /\ Ran(i, "database_query")
  /\ ~(JustRan(i, "database_query") /\ pc = "ABORTED")

\* C29 (as stated): when places_search routes to standardize, latitude and
\* longitude are those of the geocode answer, and the nearby query of
\* database_query is issued with those coordinates and a radius of 0.001 degrees
C29_LookupAtGeocodedCoordinates ==
  \A i \in Rows :
    Resolved(i) =>
      /\ rowlog[i].geocode # None
      /\ rowlog[i].geocode[1] # None
      /\ LET geocode_result == rowlog[i].geocode[1][1]
         IN  /\ JustRan(i, "places_search") =>
                  /\ latitude = Some(geocode_result.latitude)
                  /\ longitude = Some(geocode_result.longitude)
             /\ Queried(i) =>
                  /\ rowlog[i].query # None
                  /\ rowlog[i].query[1].latitude = Some(geocode_result.latitude)
                  /\ rowlog[i].query[1].longitude = Some(geocode_result.longitude)
                  /\ rowlog[i].query[1].radius_degrees = RADIUS_DEGREES

\* C30: when confidence_scoring has run for a row with candidates, the record
\* handed to the scorer is the first candidate, and until next_row
\* matched_premise_id is that candidate's id and confidence_score the score
\* the scorer returned, whether the row went on to log_duplicate or to
\* occupancy_classification
C30_NearestCandidateRetained ==
  \A i \in Rows :
    (Ran(i, "confidence_scoring") /\ rowlog[i].candidates # None
       /\ rowlog[i].candidates[1] # <<>>) =>
      /\ rowlog[i].compared = Some(rowlog[i].candidates[1][1])
      /\ rowlog[i].score = Some(score_duplicate_confidence(rowlog[i].scorer[1]))
      /\ (i = Len(rowlog) /\ ~Ran(i, "next_row")) =>
           /\ matched_premise_id = Some(rowlog[i].candidates[1][1].id)
           /\ confidence_score = rowlog[i].score
      /\ JustRan(i, "confidence_scoring") =>
           pc = (IF rowlog[i].score[1] >= HIGH_CONFIDENCE
                   THEN "log_duplicate" ELSE "occupancy_classification")

\* a row with two candidates was scored 6 against the nearest and accepted
C30_Witness ==
  /\ rowlog # <<>>
  /\ rowlog[1].candidates = Some(<<Premise(7), Premise(9)>>)
  /\ rowlog[1].score = Some(6)
  /\ JustRan(1, "verify_output")
  /\ matched_premise_id = Some(7)
  /\ 1 \in Succeeded

\* the geocode answer places_search got for row i
GeocodeOf(i) == rowlog[i].geocode[1][1]

\* the place candidate places_search got for row i
CandidateOf(i) == rowlog[i].search[1][1]

\* places_search has just run for row i with a candidate that is nearby
NearbyCandidate(i) ==
  /\ JustRan(i, "places_search")
  /\ rowlog[i].geocode # None
  /\ rowlog[i].geocode[1] # None
  /\ rowlog[i].search # None
  /\ rowlog[i].search[1] # None
  /\ NearbyResult(rowlog[i].search[1], GeocodeOf(i)) # None

\* the state holds the synthetic result made of the user's name and the geocode
GeocodedOnlyResult(i) ==
  /\ places_result = Some(GeocodedOnly(rowlog[i].row[S_name], GeocodeOf(i)))
  /\ places_type = Some("premise")
  /\ latitude = Some(GeocodeOf(i).latitude)
  /\ longitude = Some(GeocodeOf(i).longitude)
  /\ pc = "standardize"

\* C31 (as stated): a nearby candidate whose types are all non-business types,
\* the empty type list included, gives the synthetic address-only result; any
\* other nearby candidate gives its first type as places_type
C31_AddressOnlyCandidates ==
  \A i \in Rows :
    NearbyCandidate(i) =>
      IF SeqToSet(CandidateOf(i).types) \subseteq NON_BUSINESS_TYPES
        THEN GeocodedOnlyResult(i)
        ELSE places_type = Some(CandidateOf(i).types[1])

\* places_search has just run for row i with a geocode hit and a candidate
WithCandidate(i) ==
  /\ JustRan(i, "places_search")
  /\ rowlog[i].geocode # None
  /\ rowlog[i].geocode[1] # None
  /\ rowlog[i].search # None
  /\ rowlog[i].search[1] # None

\* the candidate of row i lies more than 0.05 degrees from the geocoded point
CandidateTooFar(i) ==
  TooFar(CandidateOf(i).latitude[1], CandidateOf(i).longitude[1],
         GeocodeOf(i).latitude, GeocodeOf(i).longitude)

\* C32 (as stated): a candidate farther than 0.05 degrees from the geocoded
\* point is discarded and the row continues with the synthetic geocoded-only
\* result; a candidate that is kept is within that distance
C32_FarCandidatesDiscarded ==
  \A i \in Rows :
    WithCandidate(i) =>
      /\ CandidateTooFar(i) => GeocodedOnlyResult(i)
      /\ places_result = Some(CandidateOf(i)) => ~CandidateTooFar(i)

\* C33: the name handed to the scorer for the new record is the row's input
\* name when that is not empty, and the standardized name otherwise
C33_ScorerGetsUserName ==
  \A i \in Rows :
    rowlog[i].scorer # None =>
      /\ rowlog[i].new_name # None
      /\ rowlog[i].standardized # None
      /\ rowlog[i].row[S_name] # <<>> => rowlog[i].new_name[1] = rowlog[i].row[S_name]
      /\ rowlog[i].row[S_name] = <<>> => rowlog[i].new_name[1] = rowlog[i].standardized[1]

\* a row whose standardized name differs from its input name was scored
C33_Witness ==
  /\ rowlog # <<>>
  /\ rowlog[1].scorer # None
  /\ rowlog[1].row[S_name] # <<>>
  /\ rowlog[1].standardized[1] # rowlog[1].row[S_name]

\* the row-scoped fields of PremiseState, by name
RowFields ==
  [current_row |-> current_row, places_result |-> places_result,
   places_found |-> places_found, latitude |-> latitude, longitude |-> longitude,
   places_type |-> places_type, standardized_name |-> standardized_name,
   standardized_address |-> standardized_address,
   existing_premises |-> existing_premises, duplicate_found |-> duplicate_found,
   state_id |-> state_id, state_code |-> state_code,
   confidence_score |-> confidence_score, matched_premise_id |-> matched_premise_id,
   occupancy_type_options |-> occupancy_type_options,
   selected_occupancy_type |-> selected_occupancy_type, output_row |-> output_row,
   verification_passed |-> verification_passed,
   validation_errors |-> validation_errors, error_message |-> error_message]

\* parse_row_node: the fields it reads with state.get, and the keys of its update
parse_row_fields ==
  [reads |-> {}, writes |-> {"current_row", "error_message"}]

places_search_fields ==
  [reads |-> {"current_row"},
   writes |-> {"places_result", "places_found", "latitude", "longitude", "places_type",
               "error_message"}]

standardize_fields ==
  [reads |-> {"current_row", "places_result", "places_found"},
   writes |-> {"standardized_name", "standardized_address", "error_message"}]

database_query_fields ==
  [reads |-> {"latitude", "longitude", "standardized_address"},
   writes |-> {"existing_premises", "duplicate_found", "state_id", "state_code",
               "error_message"}]

confidence_scoring_fields ==
  [reads |-> {"standardized_name", "standardized_address", "existing_premises",
              "current_row"},
   writes |-> {"confidence_score", "matched_premise_id", "error_message"}]

occupancy_classification_fields ==
  [reads |-> {"state_code", "places_type", "standardized_name"},
   writes |-> {"occupancy_type_options", "selected_occupancy_type", "error_message"}]

format_output_fields ==
  [reads |-> {"current_row", "standardized_name", "standardized_address", "latitude",
              "longitude", "selected_occupancy_type", "state_code", "confidence_score"},
   writes |-> {"output_row", "error_message"}]

verify_output_fields ==
  [reads |-> {"output_row"},
   writes |-> {"verification_passed", "validation_errors", "error_message"}]

error_handler_fields ==
  [reads |-> {"current_row", "error_message"}, writes |-> {"error_message"}]

log_duplicate_fields ==
  [reads |-> {"current_row", "standardized_name", "matched_premise_id",
              "confidence_score"},
   writes |-> {"error_message"}]

\* variant: next_row resets nothing
next_row_fields_NoReset == [reads |-> {}, writes |-> {}]

\* next_row_node: the row-scoped keys of its update, each set to its empty value
next_row_fields ==
  [reads |-> {},
   writes |-> {"current_row", "places_result", "places_found", "existing_premises",
               "confidence_score", "matched_premise_id", "error_message"}]

\* the fields a step reads and writes
FieldsOf(step) ==
  CASE step = "parse_row" -> parse_row_fields
    [] step = "places_search" -> places_search_fields
    [] step = "standardize" -> standardize_fields
    [] step = "database_query" -> database_query_fields
    [] step = "confidence_scoring" -> confidence_scoring_fields
    [] step = "occupancy_classification" -> occupancy_classification_fields
    [] step = "format_output" -> format_output_fields
    [] step = "verify_output" -> verify_output_fields
    [] step = "error_handler" -> error_handler_fields
    [] step = "log_duplicate" -> log_duplicate_fields
    [] step = "next_row" -> next_row_fields
    [] OTHER -> [reads |-> {}, writes |-> {}]

\* a step of row i before its k-th step wrote the field
WrittenByOwnRow(i, k, field) ==
  \E j \in 1..(k - 1) : field \in FieldsOf(rowlog[i].steps[j]).writes

\* no step of a row before row i, other than next_row, wrote the field
UntouchedBefore(i, field) ==
  \A h \in 1..(i - 1) :
    \A j \in 1..Len(rowlog[h].steps) :
      rowlog[h].steps[j] # "next_row" => field \notin FieldsOf(rowlog[h].steps[j]).writes

\* every field the k-th step of row i reads was written by a step of the row,
\* reset by the next_row before it, or never written by an earlier row
ReadsOwnData(i, k) ==
  \A field \in FieldsOf(rowlog[i].steps[k]).reads :
    \/ WrittenByOwnRow(i, k, field)
    \/ i > 1 /\ field \in next_row_fields.writes
    \/ UntouchedBefore(i, field)

\* the row-scoped fields whose value a transition changes
ChangedFields == {field \in DOMAIN RowFields : RowFields[field]' # RowFields[field]}

\* C34: every row-scoped field a step reads was written by a step of the same
\* row or reset by the next_row before it, where a step writes no other
\* row-scoped field than the keys of its update
C34_NoStaleReads ==
  /\ [](\A i \in Rows : \A k \in 1..Len(rowlog[i].steps) : ReadsOwnData(i, k))
  /\ [][pc' # "ABORTED" => ChangedFields \subseteq FieldsOf(pc).writes]_vars

\* the second row was formatted without being scored, after a first row that
\* was scored and had left its other fields behind
C34_Witness ==
  /\ Len(rowlog) = 2
  /\ Ran(1, "confidence_scoring")
  /\ Ran(1, "verify_output")
  /\ Ran(2, "format_output")
  /\ ~Ran(2, "confidence_scoring")
  /\ confidence_score = None

\* the records store listed no category for the row's state
NoCategories(i) == rowlog[i].options = Some(<<>>)

\* the text reports the missing Premise Occupancy
NamesMissingOccupancy(text) ==
  \E k \in 1..(Len(text) - 1) :
    text[k] = "Missing required field: " /\ text[k + 1] = "Premise Occupancy"

\* C35: a row whose state has no configured categories never enters
\* successful_rows: its formatted record has an empty Premise Occupancy,
\* verify_output fails it and hands it to error_handler, and its entry of
\* error_rows has an error_reason that begins 'Output validation failed' and
\* names the missing Premise Occupancy
C35_NoCategoriesRowFails ==
  \A i \in Rows :
    NoCategories(i) =>
      /\ i \notin Succeeded
      /\ JustRan(i, "format_output") => output_row[1].Premise_Occupancy = <<>>
      /\ JustRan(i, "verify_output") =>
           /\ ~verification_passed
           /\ pc = "error_handler"
      /\ Ran(i, "error_handler") =>
           /\ i \in Failed
           /\ Head(ErrorEntryOf(i)[S_error_reason]) = "Output validation failed: "
           /\ NamesMissingOccupancy(ErrorEntryOf(i)[S_error_reason])

\* a row without categories, valid in every other respect, has ended in
\* error_rows
C35_Witness ==
  \E i \in Rows :
    /\ NoCategories(i)
    /\ Ran(i, "next_row")
    /\ i \in Failed
    /\ ErrorEntryOf(i)[S_error_reason] =
         <<"Output validation failed: ", "Missing required field: ", "Premise Occupancy">>

\* the address components of the resolved identity carry no state component
NoStateComponent ==
  /\ places_result # None
  /\ "state_code" \notin DOMAIN ParseComponents(places_result[1].address_components, EmptyDict)

\* C36 (as stated): for a row that passed the state-code check of
\* places_search and whose resolved identity carries no state component, the
\* State of the formatted record is the upper-cased input state, and the record
\* does not break the validator's rule of two upper-case letters
C36_StateIsValidatedCode ==
  \A i \in Rows :
    (JustRan(i, "format_output") /\ NoStateComponent) =>
      /\ output_row[1].State = Upper(rowlog[i].row[S_state])
      /\ StateErrors(output_row[1]) = <<>>

\* C37: standardize is entered only with places_found true and a places_result
\* that is not None, so the name and address it writes are those of its branch
\* for a resolved identity
C37_StandardizeHasIdentity ==
  /\ [](pc = "standardize" => places_found /\ places_result # None)
  /\ [][pc = "standardize" =>
          /\ places_found /\ places_result # None
          /\ standardized_name' = StandardizedName(current_row, places_result, TRUE)
          /\ standardized_address' = StandardizedAddress(current_row, places_result, TRUE)]_vars

\* standardize is about to run on an identity made of the geocoded address and
\* the input name
C37_Witness ==
  /\ pc = "standardize"
  /\ rowlog # <<>>
  /\ GeocodedOnlyResult(Len(rowlog))

\* the number of calls of the scorer made for row i
ScorerCalls(i) ==
  Len(SelectSeq(rowlog[i].calls, LAMBDA call : call = "ScoreDuplicateConfidence"))

\* C38: confidence_scoring is entered only with a non-empty existing_premises,
\* and every row that ran it had the scorer called exactly once and got a
\* confidence_score that is not None
C38_ScoringHasCandidates ==
  /\ pc = "confidence_scoring" => existing_premises # <<>>
  /\ \A i \in Rows :
       Ran(i, "confidence_scoring") =>
         /\ rowlog[i].candidates # None
         /\ rowlog[i].candidates[1] # <<>>
         /\ ScorerCalls(i) = 1
         /\ rowlog[i].score # None
         /\ JustRan(i, "confidence_scoring") => confidence_score # None
  /\ \A i \in Rows : ~Ran(i, "confidence_scoring") => ScorerCalls(i) = 0

\* a row with a candidate has been scored
C38_Witness ==
  \E i \in Rows :
    /\ JustRan(i, "confidence_scoring")
    /\ ScorerCalls(i) = 1
    /\ confidence_score # None
    /\ pc = "occupancy_classification"

\* the number of entries the rows have added to the three accumulators
Dispositions == Len(successful_rows) + Len(error_rows) + Len(duplicate_log)

\* C39: current_row_index stays within 0..len(csv_rows); it changes only in
\* next_row, by one; it counts the rows that got their entry and were left by
\* next_row; and every row parse_row read was at an index of csv_rows
C39_IndexInRange ==
  /\ [](/\ current_row_index \in 0..Len(csv_rows)
        /\ \A i \in Rows : rowlog[i].index \in 0..(Len(csv_rows) - 1)
        /\ pc \notin {"next_row", "ABORTED"} => current_row_index = Dispositions
        /\ pc = "next_row" => current_row_index + 1 = Dispositions)
  /\ [][/\ current_row_index' >= current_row_index
        /\ current_row_index' # current_row_index =>
             /\ pc = "next_row"
             /\ current_row_index' = current_row_index + 1]_vars

\* two rows have been read and left, each with its entry
C39_Witness ==
  /\ current_row_index = 2
  /\ Dispositions = 2
  /\ Len(rowlog) = 2
  /\ rowlog[2].index = 1
  /\ pc = "write_output"

=============================================================================
